---- MODULE Spec2Model ----
(***************************************************************************)
(* Model of the workflow orchestration core of kiro-workflows (spool):     *)
(* WorkflowOrchestrator.run and its step handlers (src/src/orchestrator.ts)*)
(* together with the story parser's result shape and the task ledger.      *)
(*                                                                         *)
(* One behaviour is one call of run(workflow, task) on one orchestrator.   *)
(* The actions are the segments of the async code between two suspension   *)
(* points (agent calls), so every agent call has its own "returns" action  *)
(* whose inputs (the child's text, or an adapter error) are drawn with \E. *)
(*                                                                         *)
(* Five specifications share the variables; each leaves the variables of   *)
(* the others at their initial values:                                     *)
(*   Spec        WorkflowOrchestrator.run                                  *)
(*   SpecLedger  the Ledger class on its file (src/src/core/ledger.ts)     *)
(*   SpecCli     the spawn-per-call adapters (execSync per exec)           *)
(*   SpecAcp     KiroAdapter in ACP mode (one child, JSON-RPC lines)       *)
(*   SpecParser  parseStories on planner outputs (core/story-parser.ts)    *)
(***************************************************************************)
EXTENDS Integers, Sequences, FiniteSets, TLC

(***************************************************************************)
(* Bounds of the model                                                     *)
(***************************************************************************)
MaxSteps == 2
MaxStories == 2
MaxIter == 2
MaxRetryOpt == 2
MaxProse == 2

(***************************************************************************)
(* Program constants                                                       *)
(***************************************************************************)
DefaultMaxRetries == 3
VerifyHeadLines == 5

\* `undefined` for an optional number (step.max_retries, loop.max_retries)
Undefined == -1
\* `undefined` for an optional agent name (step.verifier)
NoAgent == "none"
\* `undefined` for story.verifyFeedback
NoFeedback == [defined |-> FALSE, text |-> <<>>]

Min(a, b) == IF a <= b THEN a ELSE b

RetryOpts == {Undefined} \cup (0..MaxRetryOpt)

(***************************************************************************)
(* WorkflowStep, as loadWorkflow builds it.  step.id is the step's         *)
(* position in the formula (ids are unique within a formula).              *)
(***************************************************************************)
StepTemplates ==
    {[agent |-> "planner",   for_each |-> FALSE, verifier |-> NoAgent, max_retries |-> Undefined],
     [agent |-> "reviewer",  for_each |-> FALSE, verifier |-> NoAgent, max_retries |-> Undefined],
     [agent |-> "compound",  for_each |-> FALSE, verifier |-> NoAgent, max_retries |-> Undefined],
     [agent |-> "developer", for_each |-> TRUE,  verifier |-> NoAgent, max_retries |-> Undefined]}
    \cup
    {[agent |-> "developer", for_each |-> TRUE, verifier |-> "verifier", max_retries |-> r] :
        r \in RetryOpts}

\* the loop-typed steps
LoopTemplates == {t \in StepTemplates : t.for_each}

\* a planner step followed by two loop-typed steps
PlanThenLoops ==
    {<<[agent |-> "planner", for_each |-> FALSE, verifier |-> NoAgent,
        max_retries |-> Undefined], a, b>> : a, b \in LoopTemplates}

\* every formula of up to MaxSteps steps, and the formulas in which a second
\* loop-typed step meets the stories the first one left
Formulas == UNION {[1..n -> StepTemplates] : n \in 0..MaxSteps} \cup PlanThenLoops

\* the workflow names found on disk, and the names run() may be called with
AvailableWorkflows == {"feature-dev"}
WorkflowNames == {"feature-dev", "unknown-flow"}

(***************************************************************************)
(* Agent outputs.  A verifier response is the sequence of its lines, each  *)
(* line given by its leading token.  A planner response is either prose    *)
(* without a list, an empty list, or a list of raw story objects.          *)
(***************************************************************************)
VerifierOutputs == {<<"PASS">>, <<"FAIL">>, <<"note", "pass">>}
ImplementerOutputs == {<<"done">>, <<"FAIL">>, <<>>}

PlannerOutputs ==
    {[kind |-> "prose", items |-> <<>>], [kind |-> "list", items |-> <<>>]}
    \cup
    {[kind |-> "list", items |-> [k \in 1..n |-> k]] : n \in 1..MaxStories}

\* ledger content left by an earlier run of another orchestrator
PriorLedgers ==
    {<<>>,
     <<[type |-> "run_start", runId |-> "r0"],
       [type |-> "run_complete", runId |-> "r0", status |-> "pass"]>>}

RunId == "r1"

VARIABLES
    workflow,        \* the workflow name run() is called with
    formula,         \* the WorkflowFormula stored under that name
    loopMaxRetries,  \* spoolConfig.loop.max_retries
    maxIterations,   \* legacyConfig.maxIterations
    ledger,          \* the events in .spool/ledger.jsonl, in append order
    run,             \* the WorkflowRun object of run()
    pc,              \* position of run() in its code
    stepIdx,         \* run(): the loop variable i (1-based), also step.id
    iteration,       \* stepLoop(): the local counter
    story,           \* stepLoop(): index of the selected story in run.stories
    calls,           \* every runner.runAgent call made, in order
    err,             \* the error thrown inside run()'s try block, if any
    cleanups,        \* number of runner.cleanup() calls
    snapshots,       \* the documents in .kiro/.workflows: [id, doc] records
    checkouts,       \* number of gitCheckout calls made by run()
    thrown,          \* the error run() itself rejected with, if any
    verifyOutput,    \* runStoryIteration(): the local of that name
    file,            \* Ledger: the file at filePath
    appended,        \* Ledger: the events passed to append(), in call order
    answer,          \* Ledger: the last query made and what it returned
    cliAdapter,      \* spawn-per-call adapter: its name
    cliInstalled,    \* whether the adapter's command is installed
    cliValidated,    \* the adapter's `validated` field
    cliOutcome,      \* how the child process of the last exec ended
    cliResult,       \* what the last exec returned or threw
    cliSpawns,       \* number of execSync calls made by the last exec
    cliExecs,        \* number of exec calls made
    acpProcess,      \* KiroAdapter: whether the `kiro-cli acp` child exists
    acpReqId,        \* KiroAdapter: the last JSON-RPC request id used
    acpPending,      \* KiroAdapter: the ids in the acpPending map
    listeners,       \* the "line" listeners installed on acpReader
    sent,            \* the requests written to the child's stdin, in order
    child,           \* the agent process: requests to answer, turns, sessions
    call,            \* per execAcp call: position, session, request, text
    closed,          \* the child's stdout has closed
    elapsed,         \* the calls whose configured timeout has passed
    microtasks,      \* the continuations of settled promises, in queue order
    inBatch,         \* readline is still emitting the lines of one chunk
    plannerOutput,   \* story parser: the planner output handed to parseStories
    parsed,          \* story parser: what the first call returned or threw
    reparsed,        \* story parser: what a second call on the same output did
    cmdLoop,         \* commandLoop (spool loop): its locals and position
    progressFile,    \* workflow-runner.sh: .kiro/progress.md
    runner,          \* workflow-runner.sh: position and locals of the script
    prd,             \* ralph.sh: the `passes` field of each story of prd.json
    ralph            \* ralph.sh: position and locals of main

\* the variables of WorkflowOrchestrator.run()
runVars == <<workflow, formula, loopMaxRetries, maxIterations, ledger, run, pc,
             stepIdx, iteration, story, calls, err, cleanups, snapshots,
             checkouts, thrown, verifyOutput>>

\* the variables of the Ledger class on its own
ledgerVars == <<file, appended, answer>>

\* the variables of a spawn-per-call adapter
cliVars == <<cliAdapter, cliInstalled, cliValidated, cliOutcome, cliResult,
             cliSpawns, cliExecs>>

\* the variables of the persistent-session adapter
acpVars == <<acpProcess, acpReqId, acpPending, listeners, sent, child, call,
             closed, elapsed, microtasks, inBatch>>

\* the adapter's variables other than the child process itself
acpRest == <<acpReqId, acpPending, listeners, sent, child, call, closed,
             elapsed, microtasks, inBatch>>

\* the variables of the story parser on its own
parserVars == <<plannerOutput, parsed, reparsed>>

\* the variable of the standalone loop command
cmdVars == <<cmdLoop>>

\* the variables of workflow-runner.sh
runnerVars == <<progressFile, runner>>

\* the variables of ralph.sh
ralphVars == <<prd, ralph>>

\* the variables of the command and of the two shell scripts
scriptVars == <<cmdVars, runnerVars, ralphVars>>

vars == <<runVars, ledgerVars, cliVars, acpVars, parserVars, scriptVars>>

NoRun == [status |-> "none", stories |-> <<>>, progress |-> <<>>,
          learnings |-> <<>>, iteration |-> 0, maxIterations |-> 0]

\* runStoryIteration is not past its verifier call
NoVerifyOutput == [defined |-> FALSE, text |-> <<>>]

\* run() has not thrown
NoError == [kind |-> "none", workflow |-> "none", available |-> {}]

\* no file at the path
NoFile == [exists |-> FALSE, content |-> <<>>]

\* no query made yet
NoAnswer == [op |-> "none"]

\* the Ledger class is not used on its own
NoLedgerCall ==
    /\ file = NoFile
    /\ appended = <<>>
    /\ answer = NoAnswer

\* no exec made yet: no child process, nothing returned
NoOutcome == [how |-> "none"]

NoResult == [ok |-> FALSE, error |-> "none"]

\* no spawn-per-call adapter is used
NoCliCall ==
    /\ cliAdapter = "kiro"
    /\ cliInstalled = TRUE
    /\ cliValidated = FALSE
    /\ cliOutcome = NoOutcome
    /\ cliResult = NoResult
    /\ cliSpawns = 0
    /\ cliExecs = 0

\* two logical exec calls on one persistent-session adapter; the second may
\* enter while the first is in flight or after it has returned
AcpCalls == {1, 2}

\* execAcp has not been called
NoCall == [pc |-> "idle", session |-> Undefined, req |-> 0, text |-> <<>>,
           output |-> <<>>, endedBy |-> Undefined]

\* parseStories has not been called
NoParse == [ok |-> FALSE, error |-> "not called", stories |-> <<>>]

\* no planner output: prose only, nothing in it
NoText == [hasList |-> FALSE, pre |-> <<>>, fence |-> "none", items |-> <<>>,
           trailing |-> FALSE, post |-> <<>>]

\* the story parser is not used on its own
NoParserCall ==
    /\ plannerOutput = NoText
    /\ parsed = NoParse
    /\ reparsed = NoParse

\* commandLoop has not been called
NoCmdLoop == [pc |-> "idle", maxRetries |-> 0, attempt |-> 0,
              status |-> "pending", verifyFeedback |-> NoFeedback]

\* no .kiro/progress.md
NoProgress == [exists |-> FALSE, status |-> "none", steps |-> <<>>,
               completed |-> 0]

\* workflow-runner.sh has not been started
NoRunner == [pc |-> "idle", step |-> 0, startFrom |-> 1, autoRun |-> FALSE,
             runs |-> 0, ended |-> "none"]

\* ralph.sh has not been started
NoRalph == [pc |-> "idle", iteration |-> 0, retries |-> 0, feedback |-> FALSE,
            story |-> 0, maxIterations |-> 0, verifyEach |-> TRUE]

\* neither the loop command nor a shell script is used
NoScriptCall ==
    /\ cmdLoop = NoCmdLoop
    /\ progressFile = NoProgress
    /\ runner = NoRunner
    /\ prd = <<>>
    /\ ralph = NoRalph

\* the persistent-session adapter is not used
NoAcpCall ==
    /\ acpProcess = FALSE
    /\ acpReqId = 0
    /\ acpPending = {}
    /\ listeners = {}
    /\ sent = <<>>
    /\ child = [todo |-> {}, turns |-> {}, sessions |-> {}]
    /\ call = [c \in AcpCalls |-> NoCall]
    /\ closed = FALSE
    /\ elapsed = {}
    /\ microtasks = <<>>
    /\ inBatch = FALSE

Init ==
    /\ workflow \in WorkflowNames
    /\ formula \in Formulas
    /\ loopMaxRetries \in RetryOpts
    /\ maxIterations \in 1..MaxIter
    /\ ledger \in PriorLedgers
    /\ run = NoRun
    /\ pc = "idle"
    /\ stepIdx = 0
    /\ iteration = 0
    /\ story = 0
    /\ calls = <<>>
    /\ err = "none"
    /\ cleanups = 0
    /\ snapshots = {}
    /\ checkouts = 0
    /\ thrown = NoError
    /\ verifyOutput = NoVerifyOutput
    /\ NoLedgerCall
    /\ NoCliCall
    /\ NoAcpCall
    /\ NoParserCall
    /\ NoScriptCall

(***************************************************************************)
(* Ledger                                                                  *)
(***************************************************************************)
\* Ledger.append: the file's content followed by the event
ledgerAppend(events, e) == Append(events, e)

\* variant: read() without the filter
getRunEvents_unfiltered(events, runId) == events

\* Ledger.getRunEvents
getRunEvents(events, runId) == SelectSeq(events, LAMBDA e : e.runId = runId)

(***************************************************************************)
(* Story parser                                                            *)
(***************************************************************************)
\* parseStories throws unless a non-empty list can be decoded
parseFails(output) == output.kind # "list" \/ Len(output.items) = 0

\* parseRawStories: one Story per raw object
parseStories(output, maxRetries) ==
    [k \in 1..Len(output.items) |->
        [id |-> output.items[k], status |-> "pending", retryCount |-> 0,
         maxRetries |-> maxRetries, verifyFeedback |-> NoFeedback]]

(***************************************************************************)
(* Helpers of the orchestrator                                             *)
(***************************************************************************)
\* a ?? b
Coalesce(a, b) == IF a # Undefined THEN a ELSE b

isPlanStep(i) ==
    i = 1 /\ ~formula[i].for_each /\ formula[i].agent = "planner"

\* stepPlan: the maxRetries handed to parseStories
planMaxRetries == Coalesce(loopMaxRetries, DefaultMaxRetries)

\* stepLoop: const maxRetries
stepMaxRetries(step) ==
    Coalesce(step.max_retries, Coalesce(loopMaxRetries, DefaultMaxRetries))

\* variant: a done story counts as open too
isOpen_orDone(s) == s.status \in {"pending", "running", "done"}

\* the test of run.stories.find and of the post-loop filter
isOpen(s) == s.status = "pending" \/ s.status = "running"

\* variant: the last pending or running story is selected
findStory_last(stories) ==
    IF \E k \in 1..Len(stories) : isOpen(stories[k])
    THEN CHOOSE k \in 1..Len(stories) :
            /\ isOpen(stories[k])
            /\ \A j \in (k + 1)..Len(stories) : ~isOpen(stories[j])
    ELSE 0

\* run.stories.find(s => pending or running): index of the first one, 0 if none
findStory(stories) ==
    IF \E k \in 1..Len(stories) : isOpen(stories[k])
    THEN CHOOSE k \in 1..Len(stories) :
            /\ isOpen(stories[k])
            /\ \A j \in 1..(k - 1) : ~isOpen(stories[j])
    ELSE 0

\* number of stories still pending or running
remaining(stories) == Cardinality({k \in 1..Len(stories) : isOpen(stories[k])})

isPassToken(tok) == tok \in {"PASS", "pass", "Pass"}

\* /^PASS/im on the first five lines of the verifier output
parseVerifyResult(output) ==
    \E k \in 1..Min(VerifyHeadLines, Len(output)) : isPassToken(output[k])

(***************************************************************************)
(* run(): entry.  loadFormula throws for a workflow that is not available; *)
(* otherwise the WorkflowRun is created and run_start is appended.         *)
(***************************************************************************)
newRun ==
    [status |-> "planning", stories |-> <<>>, progress |-> <<>>,
     learnings |-> <<>>, iteration |-> 0, maxIterations |-> maxIterations]

\* loadFormula: the error thrown for a name that was not discovered
unknownWorkflow(name) ==
    [kind |-> "Unknown workflow", workflow |-> name,
     available |-> AvailableWorkflows]

\* variant: the branch is checked out before the formula is loaded
RunRejected_afterCheckout ==
    /\ pc = "idle"
    /\ workflow \notin AvailableWorkflows
    /\ thrown' = unknownWorkflow(workflow)
    /\ checkouts' = checkouts + 1
    /\ pc' = "rejected"
    /\ UNCHANGED <<snapshots, verifyOutput, acpProcess, ledgerVars, cliVars,
                   acpRest, parserVars, scriptVars>>
    /\ UNCHANGED <<workflow, formula, loopMaxRetries, maxIterations, ledger,
                   run, stepIdx, iteration, story, calls, err, cleanups>>

RunRejected ==
    /\ pc = "idle"
    /\ workflow \notin AvailableWorkflows
    /\ thrown' = unknownWorkflow(workflow)
    /\ pc' = "rejected"
    /\ UNCHANGED <<snapshots, checkouts, verifyOutput, acpProcess, ledgerVars,
                   cliVars, acpRest, parserVars, scriptVars>>
    /\ UNCHANGED <<workflow, formula, loopMaxRetries, maxIterations, ledger,
                   run, stepIdx, iteration, story, calls, err, cleanups>>

RunStart ==
    /\ pc = "idle"
    /\ workflow \in AvailableWorkflows
    /\ run' = newRun
    /\ ledger' = ledgerAppend(ledger, [type |-> "run_start", runId |-> RunId])
    /\ stepIdx' = 1
    /\ checkouts' = checkouts + 1
    /\ pc' = "steps"
    /\ UNCHANGED <<snapshots, thrown, verifyOutput, acpProcess, ledgerVars,
                   cliVars, acpRest, parserVars, scriptVars>>
    /\ UNCHANGED <<workflow, formula, loopMaxRetries, maxIterations,
                   iteration, story, calls, err, cleanups>>

(***************************************************************************)
(* run(): one pass of `for (i ...)` up to the step's first agent call.     *)
(***************************************************************************)
stepKind(i) ==
    IF isPlanStep(i) THEN "stepPlan"
    ELSE IF formula[i].for_each THEN "stepLoop"
    ELSE IF formula[i].agent = "compound" THEN "stepCompound"
    ELSE "stepSingle"

\* execAcp: `if (!this.acpProcess) await this.startAcp()`; spawn() sets the
\* field before the first await, so the process exists once exec is entered
execAcpProcess == TRUE

agentCall(agent, i, role, storyId, feedback) ==
    [agent |-> agent, step |-> i, role |-> role, storyId |-> storyId,
     feedback |-> feedback]

StepStart ==
    /\ pc = "steps"
    /\ stepIdx <= Len(formula)
    /\ LET step == formula[stepIdx]
           kind == stepKind(stepIdx)
       IN  /\ ledger' = ledgerAppend(ledger,
                 [type |-> "step_start", runId |-> RunId, step |-> stepIdx,
                  agent |-> step.agent])
           /\ pc' = kind
           /\ run' = IF kind = "stepPlan"
                     THEN [run EXCEPT !.status = "planning"] ELSE run
           /\ iteration' = IF kind = "stepLoop" THEN 0 ELSE iteration
           /\ calls' = IF kind = "stepLoop" THEN calls
                       ELSE Append(calls,
                              agentCall(step.agent, stepIdx, kind, 0, NoFeedback))
           /\ acpProcess' = IF kind = "stepLoop" THEN acpProcess
                            ELSE execAcpProcess
    /\ UNCHANGED <<snapshots, checkouts, thrown, verifyOutput, ledgerVars,
                   cliVars, acpRest, parserVars, scriptVars>>
    /\ UNCHANGED <<workflow, formula, loopMaxRetries, maxIterations,
                   stepIdx, story, err, cleanups>>

\* the for loop is over: run.status = "done"
AllStepsDone ==
    /\ pc = "steps"
    /\ stepIdx > Len(formula)
    /\ run' = [run EXCEPT !.status = "done"]
    /\ pc' = "complete"
    /\ UNCHANGED <<snapshots, checkouts, thrown, verifyOutput, acpProcess,
                   ledgerVars, cliVars, acpRest, parserVars, scriptVars>>
    /\ UNCHANGED <<workflow, formula, loopMaxRetries, maxIterations, ledger,
                   stepIdx, iteration, story, calls, err, cleanups>>

\* the step handler returned: step_complete, next i
StepComplete ==
    /\ pc = "stepDone"
    /\ ledger' = ledgerAppend(ledger,
          [type |-> "step_complete", runId |-> RunId, step |-> stepIdx,
           status |-> "pass"])
    /\ stepIdx' = stepIdx + 1
    /\ pc' = "steps"
    /\ UNCHANGED <<snapshots, checkouts, thrown, verifyOutput, acpProcess,
                   ledgerVars, cliVars, acpRest, parserVars, scriptVars>>
    /\ UNCHANGED <<workflow, formula, loopMaxRetries, maxIterations, run,
                   iteration, story, calls, err, cleanups>>

(***************************************************************************)
(* An awaited runner.runAgent call rejects (adapter error).  No handler    *)
(* between the call and run()'s try/catch catches it.                      *)
(***************************************************************************)
AwaitingAgent == {"stepPlan", "stepSingle", "stepCompound", "implement", "verify"}

AgentThrows ==
    /\ pc \in AwaitingAgent
    /\ err' = "adapter"
    /\ pc' = "catch"
    /\ UNCHANGED <<snapshots, checkouts, thrown, verifyOutput, acpProcess,
                   ledgerVars, cliVars, acpRest, parserVars, scriptVars>>
    /\ UNCHANGED <<workflow, formula, loopMaxRetries, maxIterations, ledger,
                   run, stepIdx, iteration, story, calls, cleanups>>

\* variant: the catch block returns the run without appending run_complete
Catch_noComplete ==
    /\ pc = "catch"
    /\ run' = [run EXCEPT !.status = "failed"]
    /\ pc' = "cleanup"
    /\ UNCHANGED <<snapshots, checkouts, thrown, verifyOutput, acpProcess,
                   ledgerVars, cliVars, acpRest, parserVars, scriptVars>>
    /\ UNCHANGED <<workflow, formula, loopMaxRetries, maxIterations, ledger,
                   stepIdx, iteration, story, calls, err, cleanups>>

\* variant: the failing step is skipped and the for loop continues
Catch_continue ==
    /\ pc = "catch"
    /\ run' = [run EXCEPT !.status = "failed"]
    /\ stepIdx' = stepIdx + 1
    /\ pc' = "steps"
    /\ UNCHANGED <<snapshots, checkouts, thrown, verifyOutput, acpProcess,
                   ledgerVars, cliVars, acpRest, parserVars, scriptVars>>
    /\ UNCHANGED <<workflow, formula, loopMaxRetries, maxIterations, ledger,
                   iteration, story, calls, err, cleanups>>

\* run(): catch (err)
Catch ==
    /\ pc = "catch"
    /\ run' = [run EXCEPT !.status = "failed"]
    /\ pc' = "complete"
    /\ UNCHANGED <<snapshots, checkouts, thrown, verifyOutput, acpProcess,
                   ledgerVars, cliVars, acpRest, parserVars, scriptVars>>
    /\ UNCHANGED <<workflow, formula, loopMaxRetries, maxIterations, ledger,
                   stepIdx, iteration, story, calls, err, cleanups>>

\* run(): append run_complete
RunComplete ==
    /\ pc = "complete"
    /\ ledger' = ledgerAppend(ledger,
          [type |-> "run_complete", runId |-> RunId,
           status |-> IF run.status = "done" THEN "pass" ELSE "fail"])
    /\ pc' = "cleanup"
    /\ UNCHANGED <<snapshots, checkouts, thrown, verifyOutput, acpProcess,
                   ledgerVars, cliVars, acpRest, parserVars, scriptVars>>
    /\ UNCHANGED <<workflow, formula, loopMaxRetries, maxIterations, run,
                   stepIdx, iteration, story, calls, err, cleanups>>

\* variant: cleanup leaves the child process running
Cleanup_keepProcess ==
    /\ pc = "cleanup"
    /\ cleanups' = cleanups + 1
    /\ pc' = "returned"
    /\ UNCHANGED <<snapshots, checkouts, thrown, verifyOutput, acpProcess,
                   ledgerVars, cliVars, acpRest, parserVars, scriptVars>>
    /\ UNCHANGED <<workflow, formula, loopMaxRetries, maxIterations, ledger,
                   run, stepIdx, iteration, story, calls, err>>

\* run(): await this.runner.cleanup(); return run.  Runner.cleanup calls the
\* adapter's cleanup, which kills the child process if there is one
Cleanup ==
    /\ pc = "cleanup"
    /\ cleanups' = cleanups + 1
    /\ acpProcess' = FALSE
    /\ pc' = "returned"
    /\ UNCHANGED <<snapshots, checkouts, thrown, verifyOutput, ledgerVars,
                   cliVars, acpRest, parserVars, scriptVars>>
    /\ UNCHANGED <<workflow, formula, loopMaxRetries, maxIterations, ledger,
                   run, stepIdx, iteration, story, calls, err>>

(***************************************************************************)
(* stepPlan: the planner answered; parse its output                        *)
(***************************************************************************)
StepPlanReturns ==
    /\ pc = "stepPlan"
    /\ \E output \in PlannerOutputs :
          IF parseFails(output)
          THEN /\ pc' = "catch"
               /\ err' = "parse"
               /\ run' = run
          ELSE /\ run' = [run EXCEPT
                            !.stories = parseStories(output, planMaxRetries),
                            !.status = "running"]
               /\ err' = err
               /\ pc' = "stepDone"
    /\ UNCHANGED <<snapshots, checkouts, thrown, verifyOutput, acpProcess,
                   ledgerVars, cliVars, acpRest, parserVars, scriptVars>>
    /\ UNCHANGED <<workflow, formula, loopMaxRetries, maxIterations, ledger,
                   stepIdx, iteration, story, calls, cleanups>>

(***************************************************************************)
(* stepSingle / stepCompound: the agent answered                           *)
(***************************************************************************)
StepSingleReturns ==
    /\ pc = "stepSingle"
    /\ run' = [run EXCEPT !.progress =
                  Append(@, [kind |-> "step", step |-> stepIdx])]
    /\ pc' = "stepDone"
    /\ UNCHANGED <<snapshots, checkouts, thrown, verifyOutput, acpProcess,
                   ledgerVars, cliVars, acpRest, parserVars, scriptVars>>
    /\ UNCHANGED <<workflow, formula, loopMaxRetries, maxIterations, ledger,
                   stepIdx, iteration, story, calls, err, cleanups>>

StepCompoundReturns ==
    /\ pc = "stepCompound"
    /\ run' = [run EXCEPT
                 !.learnings = Append(@, "output"),
                 !.progress = Append(@, [kind |-> "learnings", step |-> stepIdx])]
    /\ ledger' = ledgerAppend(ledger,
          [type |-> "learning", runId |-> RunId, content |-> "output"])
    /\ pc' = "stepDone"
    /\ UNCHANGED <<snapshots, checkouts, thrown, verifyOutput, acpProcess,
                   ledgerVars, cliVars, acpRest, parserVars, scriptVars>>
    /\ UNCHANGED <<workflow, formula, loopMaxRetries, maxIterations,
                   stepIdx, iteration, story, calls, err, cleanups>>

(***************************************************************************)
(* stepLoop                                                                *)
(***************************************************************************)
\* variant: the decrement of a retried attempt is left out
retryIteration_kept(it) == it

\* `iteration--` of a failed attempt that will be retried
retryIteration(it) == it - 1

\* variant: the story is failed only when the count is past the limit
retriesExhausted_strict(retryCount, maxRetries) == retryCount > maxRetries

\* the failure branch's test `story.retryCount >= maxRetries`
retriesExhausted(retryCount, maxRetries) == retryCount >= maxRetries

\* variant: a story that will be retried is left running
retryStatus_running == "running"

\* the failure branch's `story.status = "pending"` of a story to be retried
retryStatus == "pending"

\* `story.verifyFeedback || "Verification failed"`
feedbackText(fb) ==
    IF fb.defined /\ fb.text # <<>> THEN fb.text ELSE <<"Verification failed">>

\* while (iteration < maxIterations) with a story found: select it, mark it
\* running, append loop_start and call the implementer
LoopPass ==
    /\ pc = "stepLoop"
    /\ iteration < maxIterations
    /\ findStory(run.stories) # 0
    /\ LET k == findStory(run.stories)
           s == run.stories[k]
       IN  /\ story' = k
           /\ iteration' = iteration + 1
           /\ run' = [run EXCEPT !.stories[k].status = "running",
                                 !.iteration = iteration + 1]
           /\ ledger' = ledgerAppend(ledger,
                 [type |-> "loop_start", runId |-> RunId, step |-> stepIdx,
                  storyId |-> s.id, attempt |-> s.retryCount + 1])
           /\ calls' = Append(calls,
                 agentCall(formula[stepIdx].agent, stepIdx, "implement", s.id,
                           s.verifyFeedback))
    /\ acpProcess' = execAcpProcess
    /\ verifyOutput' = NoVerifyOutput
    /\ pc' = "implement"
    /\ UNCHANGED <<snapshots, checkouts, thrown, ledgerVars, cliVars, acpRest, parserVars, scriptVars>>
    /\ UNCHANGED <<workflow, formula, loopMaxRetries, maxIterations,
                   stepIdx, err, cleanups>>

\* the while loop ends (budget used up, or no story found); post-loop status
LoopExit ==
    /\ pc = "stepLoop"
    /\ ~(iteration < maxIterations /\ findStory(run.stories) # 0)
    /\ run' = IF remaining(run.stories) > 0
              THEN [run EXCEPT !.status = "failed"] ELSE run
    /\ verifyOutput' = NoVerifyOutput
    /\ pc' = "stepDone"
    /\ UNCHANGED <<snapshots, checkouts, thrown, acpProcess, ledgerVars,
                   cliVars, acpRest, parserVars, scriptVars>>
    /\ UNCHANGED <<workflow, formula, loopMaxRetries, maxIterations, ledger,
                   stepIdx, iteration, story, calls, err, cleanups>>

\* the part of a loop pass that follows runStoryIteration's result, on the
\* story list `stories` (which already holds the attempt's verifyFeedback)
Outcome(passed, stories) ==
    LET s == stories[story]
        maxRetries == stepMaxRetries(formula[stepIdx])
    IN  /\ IF passed
           THEN /\ run' = [run EXCEPT
                     !.stories = [stories EXCEPT
                                    ![story].status = "done",
                                    ![story].verifyFeedback = NoFeedback],
                     !.progress = Append(@, [kind |-> "story", story |-> s.id,
                                             iteration |-> iteration])]
                /\ ledger' = ledgerAppend(ledger,
                      [type |-> "loop_pass", runId |-> RunId, step |-> stepIdx,
                       storyId |-> s.id, attempt |-> s.retryCount + 1])
                /\ iteration' = iteration
           ELSE IF retriesExhausted(s.retryCount + 1, maxRetries)
           THEN /\ run' = [run EXCEPT
                     !.stories = [stories EXCEPT
                                    ![story].retryCount = s.retryCount + 1,
                                    ![story].status = "failed"]]
                /\ ledger' = ledgerAppend(ledger,
                      [type |-> "loop_exhausted", runId |-> RunId,
                       step |-> stepIdx, storyId |-> s.id,
                       attempts |-> maxRetries])
                /\ iteration' = iteration
           ELSE /\ run' = [run EXCEPT
                     !.stories = [stories EXCEPT
                                    ![story].retryCount = s.retryCount + 1,
                                    ![story].status = retryStatus]]
                /\ ledger' = ledgerAppend(ledger,
                      [type |-> "loop_fail", runId |-> RunId, step |-> stepIdx,
                       storyId |-> s.id, attempt |-> s.retryCount + 1,
                       feedback |-> feedbackText(s.verifyFeedback)])
                /\ iteration' = retryIteration(iteration)
        /\ pc' = "stepLoop"

\* variant: the test for a configured verifier is inverted
needsVerifier_inverted(step) == step.verifier = NoAgent

\* runStoryIteration: `if (!step.verifier) return true`
needsVerifier(step) == step.verifier # NoAgent

\* runStoryIteration: the implementer answered; its text is discarded
ImplementReturns ==
    /\ pc = "implement"
    /\ \E output \in ImplementerOutputs :
          IF needsVerifier(formula[stepIdx])
          THEN /\ calls' = Append(calls,
                     agentCall(formula[stepIdx].verifier, stepIdx, "verify",
                               run.stories[story].id, NoFeedback))
               /\ acpProcess' = execAcpProcess
               /\ pc' = "verify"
               /\ UNCHANGED <<run, ledger, iteration>>
          ELSE /\ Outcome(TRUE, run.stories)
               /\ calls' = calls
               /\ acpProcess' = acpProcess
    /\ UNCHANGED <<snapshots, checkouts, thrown, verifyOutput, ledgerVars,
                   cliVars, acpRest, parserVars, scriptVars>>
    /\ UNCHANGED <<workflow, formula, loopMaxRetries, maxIterations,
                   stepIdx, story, err, cleanups>>

\* variant: a failing verifier output is not kept
storedFeedback_none(output) == NoFeedback

\* runStoryIteration: `if (!passed) story.verifyFeedback = verifyOutput`
storedFeedback(output) == [defined |-> TRUE, text |-> output]

\* runStoryIteration: the verifier answered
VerifyReturns ==
    /\ pc = "verify"
    /\ \E output \in VerifierOutputs :
          LET passed == parseVerifyResult(output)
              stories == IF passed THEN run.stories
                         ELSE [run.stories EXCEPT ![story].verifyFeedback =
                                  storedFeedback(output)]
          IN  /\ verifyOutput' = [defined |-> TRUE, text |-> output]
              /\ Outcome(passed, stories)
    /\ UNCHANGED <<snapshots, checkouts, thrown, acpProcess, ledgerVars,
                   cliVars, acpRest, parserVars, scriptVars>>
    /\ UNCHANGED <<workflow, formula, loopMaxRetries, maxIterations,
                   stepIdx, story, calls, err, cleanups>>

Next ==
    \/ RunRejected
    \/ RunStart
    \/ StepStart
    \/ AllStepsDone
    \/ StepComplete
    \/ AgentThrows
    \/ Catch
    \/ RunComplete
    \/ Cleanup
    \/ StepPlanReturns
    \/ StepSingleReturns
    \/ StepCompoundReturns
    \/ LoopPass
    \/ LoopExit
    \/ ImplementReturns
    \/ VerifyReturns

Spec == Init /\ [][Next]_vars

TypeOK ==
    /\ pc \in {"idle", "rejected", "steps", "stepPlan", "stepLoop",
               "stepSingle", "stepCompound", "implement", "verify",
               "stepDone", "catch", "complete", "cleanup", "returned"}
    /\ run.status \in {"none", "planning", "running", "done", "failed"}
    /\ iteration \in 0..maxIterations
    /\ stepIdx \in 0..(Len(formula) + 1)

(***************************************************************************)
(* The Ledger class on its file: append() and the queries built on read(). *)
(***************************************************************************)
MaxAppends == 3

LedgerRunIds == {"run-1", "run-2"}

\* the events appended: run_start, step_start and run_complete of two runs
LedgerEvents ==
    [type : {"run_start", "step_start"}, runId : LedgerRunIds]
        \cup [type : {"run_complete"}, runId : LedgerRunIds,
              status : {"pass", "fail"}]

\* getLatestRunId(): no run_start found
Null == "null"

\* The file content is a sequence of tokens: the text of one JSON value
\* (which holds no raw line feed) or one line feed.
NL == [kind |-> "nl"]

\* JSON.stringify(event)
stringify(e) == [kind |-> "json", event |-> e]

\* JSON.parse(line) of a line holding one JSON text
parse(line) == line[1].event

\* variant: writeFileSync, the file holds the last event only
append_overwrite(f, e) ==
    [exists |-> TRUE, content |-> <<stringify(e), NL>>]

\* Ledger.append: appendFileSync(filePath, JSON.stringify(event) + "\n")
append(f, e) ==
    [exists |-> TRUE, content |-> f.content \o <<stringify(e), NL>>]

RECURSIVE trimStart(_)
trimStart(c) ==
    IF c # <<>> /\ Head(c).kind = "nl" THEN trimStart(Tail(c)) ELSE c

RECURSIVE trimEnd(_)
trimEnd(c) ==
    IF c # <<>> /\ c[Len(c)].kind = "nl"
    THEN trimEnd(SubSeq(c, 1, Len(c) - 1)) ELSE c

\* String.prototype.trim: line feeds at both ends removed
trim(c) == trimEnd(trimStart(c))

\* content.split("\n")
RECURSIVE split(_)
split(c) ==
    IF \A i \in 1..Len(c) : c[i].kind # "nl" THEN <<c>>
    ELSE LET i == CHOOSE n \in 1..Len(c) :
                     /\ c[n].kind = "nl"
                     /\ \A j \in 1..(n - 1) : c[j].kind # "nl"
         IN  <<SubSeq(c, 1, i - 1)>> \o split(SubSeq(c, i + 1, Len(c)))

\* Ledger.read
read(f) ==
    IF ~f.exists THEN <<>>
    ELSE LET content == trim(f.content)
         IN  IF content = <<>> THEN <<>>
             ELSE LET lines == split(content)
                  IN  [n \in 1..Len(lines) |-> parse(lines[n])]

\* Ledger.getLatestRunId: the loop from the last event backwards
RECURSIVE scanBack(_, _)
scanBack(events, i) ==
    IF i < 1 THEN Null
    ELSE IF events[i].type = "run_start" THEN events[i].runId
    ELSE scanBack(events, i - 1)

\* variant: the first run_start instead of the last
getLatestRunId_first(events) ==
    LET starts == {i \in 1..Len(events) : events[i].type = "run_start"}
    IN  IF starts = {} THEN Null
        ELSE events[CHOOSE i \in starts : \A j \in starts : i <= j].runId

getLatestRunId(events) == scanBack(events, Len(events))

\* Map.has / Map.set on the insertion-ordered map `runs`
mapHas(runs, id) == \E k \in 1..Len(runs) : runs[k].runId = id

mapSet(runs, rec) ==
    IF mapHas(runs, rec.runId)
    THEN [k \in 1..Len(runs) |->
            IF runs[k].runId = rec.runId THEN rec ELSE runs[k]]
    ELSE Append(runs, rec)

\* variant: a run_start of a run already in the map leaves its record alone
getRunsStep_keepFirst(runs, event) ==
    IF event.type = "run_start"
    THEN IF mapHas(runs, event.runId) THEN runs
         ELSE mapSet(runs, [runId |-> event.runId, status |-> "running"])
    ELSE IF event.type = "run_complete"
    THEN [k \in 1..Len(runs) |->
            IF runs[k].runId = event.runId
            THEN [runs[k] EXCEPT !.status = event.status] ELSE runs[k]]
    ELSE runs

\* Ledger.getRuns: the body of `for (const event of events)`
getRunsStep(runs, event) ==
    IF event.type = "run_start"
    THEN mapSet(runs, [runId |-> event.runId, status |-> "running"])
    ELSE IF event.type = "run_complete"
    THEN [k \in 1..Len(runs) |->
            IF runs[k].runId = event.runId
            THEN [runs[k] EXCEPT !.status = event.status] ELSE runs[k]]
    ELSE runs

RECURSIVE getRunsFrom(_, _, _)
getRunsFrom(events, i, runs) ==
    IF i > Len(events) THEN runs
    ELSE getRunsFrom(events, i + 1, getRunsStep(runs, events[i]))

\* Ledger.getRuns: [...runs.values()]
getRuns(events) == getRunsFrom(events, 1, <<>>)

\* run() is not called in this specification
NoRunCall ==
    /\ workflow = "feature-dev"
    /\ formula = <<>>
    /\ loopMaxRetries = Undefined
    /\ maxIterations = 1
    /\ ledger = <<>>
    /\ run = NoRun
    /\ pc = "idle"
    /\ stepIdx = 0
    /\ iteration = 0
    /\ story = 0
    /\ calls = <<>>
    /\ err = "none"
    /\ cleanups = 0
    /\ snapshots = {}
    /\ checkouts = 0
    /\ thrown = NoError
    /\ verifyOutput = NoVerifyOutput

\* the ledger file is missing or empty
InitLedger ==
    /\ NoRunCall
    /\ file \in {NoFile, [exists |-> TRUE, content |-> <<>>]}
    /\ appended = <<>>
    /\ answer = NoAnswer
    /\ NoCliCall
    /\ NoAcpCall
    /\ NoParserCall
    /\ NoScriptCall

\* ledger.append(e), by either run
LedgerAppend ==
    /\ Len(appended) < MaxAppends
    /\ \E e \in LedgerEvents :
          /\ file' = append(file, e)
          /\ appended' = Append(appended, e)
    /\ answer' = NoAnswer
    /\ UNCHANGED <<runVars, parserVars, scriptVars, cliVars, acpVars>>

LedgerRead ==
    /\ answer' = [op |-> "read", value |-> read(file)]
    /\ UNCHANGED <<file, appended, runVars, parserVars, scriptVars, cliVars, acpVars>>

LedgerGetRunEvents ==
    /\ \E id \in LedgerRunIds :
          answer' = [op |-> "getRunEvents", runId |-> id,
                     value |-> getRunEvents(read(file), id)]
    /\ UNCHANGED <<file, appended, runVars, parserVars, scriptVars, cliVars, acpVars>>

LedgerGetLatestRunId ==
    /\ answer' = [op |-> "getLatestRunId",
                  value |-> getLatestRunId(read(file))]
    /\ UNCHANGED <<file, appended, runVars, parserVars, scriptVars, cliVars, acpVars>>

LedgerGetRuns ==
    /\ answer' = [op |-> "getRuns", value |-> getRuns(read(file))]
    /\ UNCHANGED <<file, appended, runVars, parserVars, scriptVars, cliVars, acpVars>>

NextLedger ==
    \/ LedgerAppend
    \/ LedgerRead
    \/ LedgerGetRunEvents
    \/ LedgerGetLatestRunId
    \/ LedgerGetRuns

SpecLedger == InitLedger /\ [][NextLedger]_vars

(***************************************************************************)
(* The spawn-per-call adapters: ClaudeCodeAdapter.exec, KiroAdapter.execCli *)
(***************************************************************************)
MaxExecs == 3

\* `output.length > 50`
PartialOutputThreshold == 50

CliAdapters == {"claude-code", "kiro"}

\* captured stdout, by its length: empty, at the threshold, just above it
Stdouts ==
    [len : {0, PartialOutputThreshold, PartialOutputThreshold + 1}]

\* how the child process of execSync ended: an exit status, or the timeout
\* (killed, status null)
ProcessOutcomes ==
    [how : {"exit"}, status : 0..2, stdout : Stdouts]
        \cup [how : {"timeout"}, status : {Undefined}, stdout : Stdouts]

\* execSync returns (it throws on a non-zero status and on the timeout)
cleanExit(o) == o.how = "exit" /\ o.status = 0

\* variant: output of exactly the threshold length counts as partial success
isPartialOutput_atLeast(output) == output.len >= PartialOutputThreshold

\* catch block: if (output.length > 50)
isPartialOutput(output) == output.len > PartialOutputThreshold

\* execErr.status || 1
exitCodeOf(status) == IF status = Undefined \/ status = 0 THEN 1 ELSE status

\* the try/catch around execSync
execResult(o) ==
    IF cleanExit(o)
    THEN [ok |-> TRUE, output |-> o.stdout, exitCode |-> 0]
    ELSE IF isPartialOutput(o.stdout)
    THEN [ok |-> TRUE, output |-> o.stdout, exitCode |-> exitCodeOf(o.status)]
    ELSE [ok |-> FALSE, error |-> "failed"]

\* ClaudeCodeAdapter.exec validates first; KiroAdapter.execCli does not
needsValidate == cliAdapter = "claude-code" /\ ~cliValidated

InitCli ==
    /\ NoRunCall
    /\ NoLedgerCall
    /\ cliAdapter \in CliAdapters
    /\ cliInstalled \in BOOLEAN
    /\ cliValidated = FALSE
    /\ cliOutcome = NoOutcome
    /\ cliResult = NoResult
    /\ cliSpawns = 0
    /\ cliExecs = 0
    /\ NoAcpCall
    /\ NoParserCall
    /\ NoScriptCall

\* exec: validate() reports the command missing, exec throws before spawning
CliExecNotInstalled ==
    /\ cliExecs < MaxExecs
    /\ needsValidate
    /\ ~cliInstalled
    /\ cliResult' = [ok |-> FALSE, error |-> "not found"]
    /\ cliOutcome' = NoOutcome
    /\ cliSpawns' = 0
    /\ cliExecs' = cliExecs + 1
    /\ UNCHANGED <<cliAdapter, cliInstalled, cliValidated>>
    /\ UNCHANGED <<runVars, parserVars, scriptVars, ledgerVars, acpVars>>

\* exec: execSync returns the child's stdout
CliExecClean ==
    /\ cliExecs < MaxExecs
    /\ needsValidate => cliInstalled
    /\ \E o \in ProcessOutcomes :
          /\ cleanExit(o)
          /\ cliOutcome' = o
          /\ cliResult' = execResult(o)
    /\ cliValidated' = (cliValidated \/ needsValidate)
    /\ cliSpawns' = 1
    /\ cliExecs' = cliExecs + 1
    /\ UNCHANGED <<cliAdapter, cliInstalled>>
    /\ UNCHANGED <<runVars, parserVars, scriptVars, ledgerVars, acpVars>>

\* exec: execSync throws (non-zero exit or timeout)
CliExecThrows ==
    /\ cliExecs < MaxExecs
    /\ needsValidate => cliInstalled
    /\ \E o \in ProcessOutcomes :
          /\ ~cleanExit(o)
          /\ cliOutcome' = o
          /\ cliResult' = execResult(o)
    /\ cliValidated' = (cliValidated \/ needsValidate)
    /\ cliSpawns' = 1
    /\ cliExecs' = cliExecs + 1
    /\ UNCHANGED <<cliAdapter, cliInstalled>>
    /\ UNCHANGED <<runVars, parserVars, scriptVars, ledgerVars, acpVars>>

NextCli ==
    \/ CliExecNotInstalled
    \/ CliExecClean
    \/ CliExecThrows

SpecCli == InitCli /\ [][NextCli]_vars

(***************************************************************************)
(* The persistent-session adapter: KiroAdapter in ACP mode (AcpClient has  *)
(* the same code).  One child process, JSON-RPC lines on its stdin/stdout. *)
(* A line written by the agent is handed to the "line" listeners installed *)
(* at that moment; the awaiting call then runs up to its next await.       *)
(***************************************************************************)
MaxChunks == 1

\* the "" of `result?.sessionId || ""`
EmptySession == 0

\* the "line" listeners: (line) => this.handleAcpLine(line), and the
\* streamHandler closure of one acpPrompt call
Dispatch == [kind |-> "handleAcpLine", call |-> 0]

Stream(c) == [kind |-> "streamHandler", call |-> c]

\* positions of execAcp at which the call awaits the agent
AcpAwaiting == {"initialize", "session/new", "setAgent", "prompt"}

request(id, method, sessionId, c) ==
    [id |-> id, method |-> method, sessionId |-> sessionId, call |-> c]

\* variant: the session id of the response is not read
acpNewSession_empty(result) == EmptySession

\* acpNewSession: result?.sessionId || ""
acpNewSession(result) ==
    IF result.sessionId = Undefined THEN EmptySession ELSE result.sessionId

InitAcp ==
    /\ NoRunCall
    /\ NoLedgerCall
    /\ NoCliCall
    /\ NoAcpCall
    /\ NoParserCall
    /\ NoScriptCall

\* acpSend(method, params) by call c: ++acpReqId, acpPending.set, stdin.write
acpSend(c, method, sessionId) ==
    LET req == request(acpReqId + 1, method, sessionId, c)
    IN  /\ acpReqId' = acpReqId + 1
        /\ acpPending' = acpPending \cup {req.id}
        /\ sent' = Append(sent, req)
        /\ child' = [child EXCEPT !.todo = @ \cup {req}]

\* the calls that have entered execAcp and not left it
inFlight == {c \in AcpCalls : call[c].pc \in AcpAwaiting}

\* a call c that has not entered execAcp; calls enter in the order 1, 2
canEnter(c) ==
    /\ ~closed
    /\ call[c].pc = "idle"
    /\ \A d \in AcpCalls : d < c => call[d].pc # "idle"

\* execAcp, no process yet: startAcp spawns it, installs the dispatcher and
\* awaits `initialize`
ExecAcpStart ==
    /\ ~acpProcess
    /\ \E c \in AcpCalls :
          /\ canEnter(c)
          /\ acpProcess' = TRUE
          /\ listeners' = {Dispatch}
          /\ acpSend(c, "initialize", Undefined)
          /\ call' = [call EXCEPT ![c].pc = "initialize",
                                  ![c].req = acpReqId + 1]
    /\ UNCHANGED <<microtasks, inBatch, closed, elapsed>>
    /\ UNCHANGED <<runVars, parserVars, scriptVars, ledgerVars, cliVars>>

\* execAcp, the process exists: acpNewSession at once
ExecAcpNext ==
    /\ acpProcess
    /\ \E c \in AcpCalls :
          /\ canEnter(c)
          /\ acpSend(c, "session/new", Undefined)
          /\ call' = [call EXCEPT ![c].pc = "session/new",
                                  ![c].req = acpReqId + 1]
    /\ UNCHANGED <<acpProcess, listeners, microtasks, inBatch, closed, elapsed>>
    /\ UNCHANGED <<runVars, parserVars, scriptVars, ledgerVars, cliVars>>

\* readline emits the lines of one chunk of the child's stdout one after the
\* other; the continuations of the promises they settle run after the last
\* of them and before the lines of the next chunk
canDeliver == ~closed /\ (microtasks = <<>> \/ inBatch)

\* handleAcpLine finds the id of the line in acpPending
dispatched(req) == Dispatch \in listeners /\ req.id \in acpPending

\* the child answers request `req` with `result`: handleAcpLine, if
\* installed, deletes the id and resolves the promise, whose continuation is
\* queued; a streamHandler ignores the line
Response(req, result) ==
    /\ canDeliver
    /\ child' = [child EXCEPT
          !.todo = @ \ {req},
          !.sessions = IF req.method = "session/new"
                       THEN @ \cup {[req |-> req.id,
                                     sessionId |-> result.sessionId]}
                       ELSE @]
    /\ IF dispatched(req)
       THEN /\ acpPending' = acpPending \ {req.id}
            /\ microtasks' = Append(microtasks,
                                    [call |-> req.call, result |-> result])
            /\ inBatch' = TRUE
       ELSE UNCHANGED <<acpPending, microtasks, inBatch>>
    /\ UNCHANGED <<acpProcess, acpReqId, listeners, sent, call, closed, elapsed>>
    /\ UNCHANGED <<runVars, parserVars, scriptVars, ledgerVars, cliVars>>

\* the child answers a request with an error: handleAcpLine rejects, the
\* error leaves execAcp
ErrorResponse ==
    /\ canDeliver
    /\ \E req \in child.todo :
          /\ child' = [child EXCEPT !.todo = @ \ {req}]
          /\ IF dispatched(req)
             THEN /\ acpPending' = acpPending \ {req.id}
                  /\ call' = [call EXCEPT ![req.call].pc = "failed"]
             ELSE UNCHANGED <<acpPending, call>>
    /\ UNCHANGED <<acpProcess, acpReqId, listeners, sent, microtasks, inBatch,
                   closed, elapsed>>
    /\ UNCHANGED <<runVars, parserVars, scriptVars, ledgerVars, cliVars>>

InitializeResponse ==
    \E req \in child.todo :
        /\ req.method = "initialize"
        /\ Response(req, [sessionId |-> Undefined])

\* the child answers `session/new` with a session id it never gave before
NewSessionResponse ==
    \E req \in child.todo :
        /\ req.method = "session/new"
        /\ Response(req, [sessionId |-> Cardinality(child.sessions) + 1])

SetAgentResponse ==
    \E req \in child.todo :
        /\ req.method = "setAgent"
        /\ Response(req, [sessionId |-> Undefined])

\* the continuation that runs next
resumes(at) == microtasks # <<>> /\ call[Head(microtasks).call].pc = at

\* startAcp returns: execAcp goes on to acpNewSession
ResumeAfterInitialize ==
    /\ resumes("initialize")
    /\ LET c == Head(microtasks).call
       IN  /\ acpSend(c, "session/new", Undefined)
           /\ call' = [call EXCEPT ![c].pc = "session/new",
                                   ![c].req = acpReqId + 1]
    /\ microtasks' = Tail(microtasks)
    /\ inBatch' = FALSE
    /\ UNCHANGED <<acpProcess, listeners, closed, elapsed>>
    /\ UNCHANGED <<runVars, parserVars, scriptVars, ledgerVars, cliVars>>

\* acpNewSession returns: execAcp goes on to acpSetAgent(sessionId, ...)
ResumeAfterNewSession ==
    /\ resumes("session/new")
    /\ LET c == Head(microtasks).call
           sessionId == acpNewSession(Head(microtasks).result)
       IN  /\ acpSend(c, "setAgent", sessionId)
           /\ call' = [call EXCEPT ![c].pc = "setAgent",
                                   ![c].session = sessionId,
                                   ![c].req = acpReqId + 1]
    /\ microtasks' = Tail(microtasks)
    /\ inBatch' = FALSE
    /\ UNCHANGED <<acpProcess, listeners, closed, elapsed>>
    /\ UNCHANGED <<runVars, parserVars, scriptVars, ledgerVars, cliVars>>

\* variant: the listeners already installed are kept
installStream_keep(installed, c) == installed \cup {Stream(c)}

\* acpPrompt: removeAllListeners("line"), then on("line", streamHandler)
installStream(installed, c) == {Stream(c)}

\* acpSetAgent returns: execAcp goes on to acpPrompt, which writes
\* session/prompt, removes every "line" listener and installs its
\* streamHandler
ResumeAfterSetAgent ==
    /\ resumes("setAgent")
    /\ LET c == Head(microtasks).call
           id == acpReqId + 1
       IN  /\ acpReqId' = id
           /\ sent' = Append(sent,
                             request(id, "session/prompt", call[c].session, c))
           /\ child' = [child EXCEPT !.turns = @ \cup
                 {[id |-> id, session |-> call[c].session, chunks |-> 0,
                   ended |-> FALSE, answered |-> FALSE]}]
           /\ listeners' = installStream(listeners, c)
           /\ call' = [call EXCEPT ![c].pc = "prompt", ![c].req = id]
    /\ microtasks' = Tail(microtasks)
    /\ inBatch' = FALSE
    /\ UNCHANGED <<acpProcess, acpPending, closed, elapsed>>
    /\ UNCHANGED <<runVars, parserVars, scriptVars, ledgerVars, cliVars>>

\* the calls whose streamHandler is installed
streaming == {l.call : l \in {m \in listeners : m.kind = "streamHandler"}}

\* the child writes a session/notification of kind AgentMessageChunk for one
\* of its open turns: every installed streamHandler adds it to fullResponse
AgentMessageChunk ==
    /\ canDeliver
    /\ \E t \in child.turns :
          /\ ~t.ended /\ ~t.answered
          /\ t.chunks < MaxChunks
          /\ child' = [child EXCEPT
                !.turns = (@ \ {t}) \cup {[t EXCEPT !.chunks = @ + 1]}]
          /\ call' = [c \in AcpCalls |->
                IF c \in streaming
                THEN [call[c] EXCEPT !.text =
                        Append(@, [session |-> t.session, n |-> t.chunks + 1])]
                ELSE call[c]]
    /\ UNCHANGED <<acpProcess, acpReqId, acpPending, listeners, sent,
                   microtasks, inBatch, closed, elapsed>>
    /\ UNCHANGED <<runVars, parserVars, scriptVars, ledgerVars, cliVars>>

\* the child writes the TurnEnd notification of one of its turns: every
\* installed streamHandler removes itself, installs the dispatcher and
\* resolves with its fullResponse
TurnEnd ==
    /\ canDeliver
    /\ \E t \in child.turns :
          /\ ~t.ended
          /\ child' = [child EXCEPT
                !.turns = (@ \ {t}) \cup {[t EXCEPT !.ended = TRUE]}]
          /\ listeners' = IF streaming = {} THEN listeners ELSE {Dispatch}
          /\ call' = [c \in AcpCalls |->
                IF c \in streaming
                THEN [call[c] EXCEPT !.pc = "returned",
                                     !.output = call[c].text,
                                     !.endedBy = t.session]
                ELSE call[c]]
    /\ UNCHANGED <<acpProcess, acpReqId, acpPending, sent, microtasks, inBatch,
                   closed, elapsed>>
    /\ UNCHANGED <<runVars, parserVars, scriptVars, ledgerVars, cliVars>>

\* the child writes the response of a session/prompt request: the
\* streamHandler of that request, if installed, resolves with
\* fullResponse || JSON.stringify(msg.result)
PromptResponse ==
    /\ canDeliver
    /\ \E t \in child.turns :
          /\ ~t.answered
          /\ child' = [child EXCEPT
                !.turns = (@ \ {t}) \cup {[t EXCEPT !.answered = TRUE]}]
          /\ LET mine == {c \in streaming : call[c].req = t.id}
             IN  /\ listeners' = IF mine = {} THEN listeners
                                 ELSE (listeners \ {Stream(c) : c \in mine})
                                          \cup {Dispatch}
                 /\ call' = [c \in AcpCalls |->
                       IF c \in mine
                       THEN [call[c] EXCEPT
                               !.pc = "returned",
                               !.output = IF call[c].text # <<>> THEN call[c].text
                                          ELSE <<[session |-> t.session, n |-> 0]>>,
                               !.endedBy = t.session]
                       ELSE call[c]]
    /\ UNCHANGED <<acpProcess, acpReqId, acpPending, sent, microtasks, inBatch,
                   closed, elapsed>>
    /\ UNCHANGED <<runVars, parserVars, scriptVars, ledgerVars, cliVars>>

\* the child process exits or its stdout closes: no listener is registered
\* for it
ChannelCloses ==
    /\ acpProcess
    /\ ~closed
    /\ closed' = TRUE
    /\ UNCHANGED <<acpProcess, acpReqId, acpPending, listeners, sent, child,
                   call, microtasks, inBatch, elapsed>>
    /\ UNCHANGED <<runVars, parserVars, scriptVars, ledgerVars, cliVars>>

\* config.timeout seconds have passed since call c entered execAcp (after
\* they have passed for the calls in flight that entered before it): execAcp
\* sets no timer
TimeoutElapses ==
    /\ \E c \in inFlight :
          /\ c \notin elapsed
          /\ \A d \in inFlight : d < c => d \in elapsed
          /\ elapsed' = elapsed \cup {c}
    /\ UNCHANGED <<acpProcess, acpReqId, acpPending, listeners, sent, child,
                   call, microtasks, inBatch, closed>>
    /\ UNCHANGED <<runVars, parserVars, scriptVars, ledgerVars, cliVars>>

NextAcp ==
    \/ ExecAcpStart
    \/ ExecAcpNext
    \/ ErrorResponse
    \/ InitializeResponse
    \/ NewSessionResponse
    \/ SetAgentResponse
    \/ ResumeAfterInitialize
    \/ ResumeAfterNewSession
    \/ ResumeAfterSetAgent
    \/ AgentMessageChunk
    \/ TurnEnd
    \/ PromptResponse
    \/ ChannelCloses
    \/ TimeoutElapses

SpecAcp == InitAcp /\ [][NextAcp]_vars

(***************************************************************************)
(* Story parser on its own (src/src/core/story-parser.ts).  The planner's  *)
(* output is a sequence of tokens: prose words, brackets, commas, fence    *)
(* markers and story objects.  A story object is one token (its own text   *)
(* is balanced and holds no trailing comma); whitespace is left out.       *)
(***************************************************************************)
\* a field that the raw object does not have (`||` treats "" the same way)
Absent == ""
NotArray == [isArray |-> FALSE, items |-> <<>>]
Arr(items) == [isArray |-> TRUE, items |-> items]

\* an element without any of the keys
EmptyRaw ==
    [id |-> Absent, story_id |-> Absent, title |-> Absent, name |-> Absent,
     description |-> Absent, acceptance_criteria |-> NotArray,
     acceptanceCriteria |-> NotArray, criteria |-> NotArray]

\* the story objects a planner may write, in the key spellings accepted
RawStories ==
    << [EmptyRaw EXCEPT !.id = "s1", !.title = "T1", !.description = "d1",
                        !.acceptance_criteria = Arr(<<"c1">>)],
       [EmptyRaw EXCEPT !.story_id = "s2", !.name = "T2",
                        !.acceptanceCriteria = Arr(<<"c2", "c3">>)],
       [EmptyRaw EXCEPT !.title = "T3", !.criteria = Arr(<<"c4">>)] >>

Tok(t) == [t |-> t, o |-> 0]
Obj(n) == [t |-> "obj", o |-> n]

\* the two values Math.random().toString(36).slice(2, 6) takes in the model
Suffixes == {"k3f9", "x0ab"}

\* prose around the list: words and stray brackets
ProseTokens == {Tok("w"), Tok("["), Tok("]")}
SeqsUpTo(S, n) == UNION {[1..m -> S] : m \in 0..n}
PreProse == SeqsUpTo(ProseTokens, MaxProse)
PostProse == SeqsUpTo(ProseTokens, 1)
\* a code fence around the list: none, three backticks, or three backticks
\* followed by json
Fences == {"none", "fence", "fence-json"}
ItemLists == SeqsUpTo(1..Len(RawStories), MaxStories)

\* planner outputs: prose, then (optionally fenced) one list of story
\* objects, possibly with a trailing comma, then prose; or prose only
PlannerTexts ==
    [hasList : {TRUE}, pre : PreProse, fence : Fences, items : ItemLists,
     trailing : BOOLEAN, post : PostProse]
    \cup
    [hasList : {FALSE}, pre : PreProse, fence : {"none"}, items : {<<>>},
     trailing : {FALSE}, post : PostProse]

listTokens(items, trailing) ==
    <<Tok("[")>>
    \o (IF items = <<>> THEN <<>>
        ELSE [n \in 1..(2 * Len(items) - 1) |->
                 IF n % 2 = 1 THEN Obj(items[(n + 1) \div 2]) ELSE Tok(",")])
    \o (IF trailing /\ items # <<>> THEN <<Tok(",")>> ELSE <<>>)
    \o <<Tok("]")>>

\* the text of a planner output
textOf(p) ==
    LET fenced(ts) == IF p.fence = "none" THEN ts
                      ELSE <<Tok(p.fence)>> \o ts \o <<Tok("fence")>>
    IN  p.pre
        \o (IF p.hasList THEN fenced(listTokens(p.items, p.trailing)) ELSE <<>>)
        \o p.post

\* output.replace(/```(?:json)?\s*/g, "").replace(/```/g, "")
stripFences(text) ==
    SelectSeq(text, LAMBDA tk : tk.t \notin {"fence", "fence-json"})

\* positions of the token kind t in text
positions(text, t) == {i \in 1..Len(text) : text[i].t = t}

\* extractJsonArray: the loop's depth after reading text[start..i]
depth(text, start, i) ==
    Cardinality(positions(text, "[") \cap start..i)
    - Cardinality(positions(text, "]") \cap start..i)

\* extractJsonArray: the slice from the first "[" to where the depth is
\* back at 0; <<>> stands for null
extractJsonArray(text) ==
    IF positions(text, "[") = {} THEN <<>>
    ELSE LET start == CHOOSE i \in positions(text, "[") :
                          \A j \in positions(text, "[") : i <= j
             ends == {i \in start..Len(text) : depth(text, start, i) = 0}
         IN  IF ends = {} THEN <<>>
             ELSE SubSeq(text, start,
                         CHOOSE i \in ends : \A j \in ends : i <= j)

\* stripped.match(/\[[\s\S]*\]/): from the first "[" to the last "]"
greedyMatch(text) ==
    LET opens == positions(text, "[")
        closes == positions(text, "]")
    IN  IF opens = {} \/ closes = {} THEN <<>>
        ELSE LET first == CHOOSE i \in opens : \A j \in opens : i <= j
                 last == CHOOSE i \in closes : \A j \in closes : j <= i
             IN  IF first < last THEN SubSeq(text, first, last) ELSE <<>>

\* JSON.parse on a text that starts with "[": jsonArray reads the elements
\* after the bracket, jsonValue one value.  An element is the index of a
\* story object, or 0 for a nested array.
RECURSIVE jsonArray(_, _, _, _)
RECURSIVE jsonValue(_, _)

jsonValue(text, i) ==
    IF i > Len(text) THEN [ok |-> FALSE, next |-> i, elem |-> 0]
    ELSE IF text[i].t = "obj"
    THEN [ok |-> TRUE, next |-> i + 1, elem |-> text[i].o]
    ELSE IF text[i].t = "["
    THEN LET a == jsonArray(text, i + 1, <<>>, "start")
         IN  [ok |-> a.ok, next |-> a.next, elem |-> 0]
    ELSE [ok |-> FALSE, next |-> i, elem |-> 0]

jsonArray(text, i, acc, state) ==
    LET failed == [ok |-> FALSE, next |-> i, elems |-> <<>>]
        value == jsonValue(text, i)
        more == IF value.ok
                THEN jsonArray(text, value.next, Append(acc, value.elem),
                               "afterValue")
                ELSE failed
    IN  IF i > Len(text) THEN failed
        ELSE IF state = "start"
        THEN IF text[i].t = "]"
             THEN [ok |-> TRUE, next |-> i + 1, elems |-> acc]
             ELSE more
        ELSE IF state = "afterValue"
        THEN IF text[i].t = "]"
             THEN [ok |-> TRUE, next |-> i + 1, elems |-> acc]
             ELSE IF text[i].t = ","
             THEN jsonArray(text, i + 1, acc, "afterComma")
             ELSE failed
        ELSE more

\* JSON.parse(jsonStr): the whole text must be one array
JSONparse(text) ==
    IF text = <<>> \/ text[1].t # "["
    THEN [ok |-> FALSE, elems |-> <<>>]
    ELSE LET a == jsonArray(text, 2, <<>>, "start")
         IN  IF a.ok /\ a.next = Len(text) + 1
             THEN [ok |-> TRUE, elems |-> a.elems]
             ELSE [ok |-> FALSE, elems |-> <<>>]

\* jsonStr.replace(/,\s*]/g, "]"): a comma right before "]" is dropped
cleaned(text) ==
    LET kept == {i \in 1..Len(text) :
                    ~(/\ text[i].t = ","
                      /\ i < Len(text)
                      /\ text[i + 1].t = "]")}
        nth(n) == CHOOSE i \in kept : Cardinality({j \in kept : j <= i}) = n
    IN  [n \in 1..Cardinality(kept) |-> text[nth(n)]]

\* a || b on strings
Or(a, b) == IF a # Absent THEN a ELSE b

\* the raw object of a decoded element
rawOf(elem) == IF elem = 0 THEN EmptyRaw ELSE RawStories[elem]

hasExplicitId(raw) == raw.id # Absent \/ raw.story_id # Absent

\* variant: the random id is used whether or not the object has an id
idOf_alwaysRandom(raw, suffix) == <<"story-", suffix>>

\* String(s.id || s.story_id || `story-${random}`), as the parts of the string
idOf(raw, suffix) ==
    IF hasExplicitId(raw) THEN <<Or(raw.id, raw.story_id)>>
    ELSE <<"story-", suffix>>

\* parseRawStories: the mapping of one raw object
storyOf(raw, maxRetries, suffix) ==
    [id |-> idOf(raw, suffix),
     title |-> Or(raw.title, Or(raw.name, "Untitled story")),
     description |-> Or(raw.description, ""),
     acceptanceCriteria |->
        IF raw.acceptance_criteria.isArray THEN raw.acceptance_criteria.items
        ELSE IF raw.acceptanceCriteria.isArray
        THEN raw.acceptanceCriteria.items
        ELSE IF raw.criteria.isArray THEN raw.criteria.items
        ELSE <<>>,
     status |-> "pending",
     retryCount |-> 0,
     maxRetries |-> maxRetries]

ParseError(kind) == [ok |-> FALSE, error |-> kind, stories |-> <<>>]

\* parseRawStories: JSON.parse, then once more without trailing commas
decode(json) ==
    LET first == JSONparse(json)
    IN  IF first.ok THEN first ELSE JSONparse(cleaned(json))

\* parseRawStories(jsonStr, maxRetries); suffix[k] is the random value drawn
\* for element k, if one is drawn for it
parseRawStories(json, maxRetries, suffix) ==
    LET raw == decode(json)
    IN  IF ~raw.ok THEN ParseError("Failed to parse stories JSON")
        ELSE IF raw.elems = <<>>
        THEN ParseError("not a non-empty array")
        ELSE [ok |-> TRUE, error |-> "none",
              stories |-> [k \in 1..Len(raw.elems) |->
                              storyOf(rawOf(raw.elems[k]), maxRetries,
                                      IF k \in DOMAIN suffix THEN suffix[k]
                                      ELSE Absent)]]

\* parseStories: the text handed to parseRawStories, <<>> if none is found
located(output) ==
    LET stripped == stripFences(output)
        json == extractJsonArray(stripped)
    IN  IF json # <<>> THEN json ELSE greedyMatch(stripped)

\* parseStories(output, maxRetries) on the text of a planner output
parseText(output, maxRetries, suffix) ==
    LET json == located(output)
    IN  IF json = <<>>
        THEN ParseError("did not output a valid JSON story array")
        ELSE parseRawStories(json, maxRetries, suffix)

\* the elements parseStories decodes from an output, <<>> if it throws
elements(output) ==
    LET json == located(output)
    IN  IF json = <<>> THEN <<>> ELSE decode(json).elems

\* the elements for which Math.random() is called: those without an id
draws(output) ==
    LET elems == elements(output)
    IN  {k \in 1..Len(elems) : ~hasExplicitId(rawOf(elems[k]))}

\* the random values one call may draw
SuffixChoices(output) == [draws(output) -> Suffixes]

InitParser ==
    /\ NoRunCall
    /\ NoLedgerCall
    /\ NoCliCall
    /\ NoAcpCall
    /\ NoScriptCall
    /\ plannerOutput \in PlannerTexts
    /\ parsed = NoParse
    /\ reparsed = NoParse

\* parseStories(output) is called
ParseStories ==
    /\ parsed = NoParse
    /\ LET output == textOf(plannerOutput)
       IN  \E suffix \in SuffixChoices(output) :
              parsed' = parseText(output, DefaultMaxRetries, suffix)
    /\ UNCHANGED <<plannerOutput, reparsed>>
    /\ UNCHANGED <<runVars, ledgerVars, cliVars, acpVars, scriptVars>>

\* parseStories is called with the same output once more
ParseStoriesAgain ==
    /\ parsed # NoParse
    /\ reparsed = NoParse
    /\ LET output == textOf(plannerOutput)
       IN  \E suffix \in SuffixChoices(output) :
              reparsed' = parseText(output, DefaultMaxRetries, suffix)
    /\ UNCHANGED <<plannerOutput, parsed>>
    /\ UNCHANGED <<runVars, ledgerVars, cliVars, acpVars, scriptVars>>

NextParser ==
    \/ ParseStories
    \/ ParseStoriesAgain

SpecParser == InitParser /\ [][NextParser]_vars

(***************************************************************************)
(* Properties                                                              *)
(***************************************************************************)
StoryIdx == 1..Len(run.stories)

\* the events of this run, in append order
runEvents == getRunEvents(ledger, RunId)

\* number of implementer calls made for a story inside one loop step
implementCalls(stepId, storyId) ==
    Cardinality({c \in 1..Len(calls) :
        /\ calls[c].role = "implement"
        /\ calls[c].step = stepId
        /\ calls[c].storyId = storyId})

verifyCalls(stepId, storyId) ==
    Cardinality({c \in 1..Len(calls) :
        /\ calls[c].role = "verify"
        /\ calls[c].step = stepId
        /\ calls[c].storyId = storyId})

\* run() has returned its WorkflowRun
Returned == pc = "returned"

\* C1: when run() returns, a run with a story that is not `done` has status
\* `failed`, and a run whose stories are all `done` and whose steps all
\* completed has status `done` (status is `done` iff every story is `done`).
C1_DoneIffAllStoriesDone ==
    Returned =>
        /\ (\E k \in StoryIdx : run.stories[k].status # "done")
              => run.status = "failed"
        /\ ((\A k \in StoryIdx : run.stories[k].status = "done")
              /\ stepIdx > Len(formula)) => run.status = "done"

\* C2: a story becomes `failed` only in a state where its retryCount equals
\* its own maxRetries, and a `failed` story keeps its status and retryCount.
C2_FailedOnlyAtMaxRetriesStep ==
    \A k \in DOMAIN run.stories \cap DOMAIN run'.stories :
        /\ (run.stories[k].status # "failed" /\ run'.stories[k].status = "failed")
              => run'.stories[k].retryCount = run'.stories[k].maxRetries
        /\ run.stories[k].status = "failed"
              => /\ run'.stories[k].status = "failed"
                 /\ run'.stories[k].retryCount = run.stories[k].retryCount

C2_FailedOnlyAtMaxRetries == [][C2_FailedOnlyAtMaxRetriesStep]_vars

\* C3: every story has retryCount <= maxRetries in every reachable state.
C3_RetryCountBounded ==
    \A k \in StoryIdx : run.stories[k].retryCount <= run.stories[k].maxRetries

\* C4: a story that a loop step with max_retries = N marks `failed` (all its
\* attempts failed verification) has had exactly N + 1 implement attempts.
C4_AttemptsBeforeFailed ==
    LET ev == runEvents
    IN  \A p \in 1..Len(ev) :
            ev[p].type = "loop_exhausted" =>
                implementCalls(ev[p].step, ev[p].storyId)
                    = stepMaxRetries(formula[ev[p].step]) + 1

\* the loop step `j` has returned to run()
loopStepOver(j) ==
    /\ j \in 1..Len(formula)
    /\ formula[j].for_each
    /\ \/ stepIdx > j
       \/ stepIdx = j /\ pc = "stepDone"

\* no loop step precedes step j: the stories reach it as the planner left them
firstLoopStep(j) == \A h \in 1..(j - 1) : ~formula[h].for_each

\* C5: after a loop step without a verifier (first loop step of the formula,
\* budget not smaller than the number of stories) every story is `done` with
\* retryCount 0 after exactly one implementer call and no verifier call.
C5_NoVerifierAllDone ==
    \A j \in 1..Len(formula) :
        (/\ loopStepOver(j)
         /\ firstLoopStep(j)
         /\ formula[j].verifier = NoAgent
         /\ maxIterations >= Len(run.stories))
        => \A k \in StoryIdx :
              /\ run.stories[k].status = "done"
              /\ run.stories[k].retryCount = 0
              /\ implementCalls(j, run.stories[k].id) = 1
              /\ verifyCalls(j, run.stories[k].id) = 0

C5_Witness ==
    /\ Len(formula) >= 2
    /\ loopStepOver(2)
    /\ formula[2].verifier = NoAgent
    /\ Len(run.stories) = 2
    /\ \A k \in StoryIdx : run.stories[k].status = "done"
    /\ Len(calls) = 3

\* stories a loop step has brought to a terminal status (done or failed)
settledIn(j) ==
    LET ev == runEvents
    IN  {ev[p].storyId : p \in {q \in 1..Len(ev) :
            /\ ev[q].type \in {"loop_pass", "loop_exhausted"}
            /\ ev[q].step = j}}

\* C6: retries do not consume iteration budget.  At the head of the story
\* loop the counter equals the number of stories the step has settled (a
\* retried attempt's increment is undone, a pass is never undone), it never
\* exceeds the budget K, and a loop step that found S open stories ends with
\* exactly min(K, S) of them settled.
C6_RetriesKeepBudget ==
    /\ iteration <= maxIterations
    /\ (pc = "stepLoop" \/ (pc = "stepDone" /\ formula[stepIdx].for_each))
          => LET settled == Cardinality(settledIn(stepIdx))
             IN  /\ iteration = settled
                 /\ pc = "stepDone" =>
                       settled = Min(maxIterations,
                                     settled + remaining(run.stories))

\* a loop step ends on its budget after a story needed a retry
C6_Witness ==
    /\ pc = "stepDone"
    /\ formula[stepIdx].for_each
    /\ iteration = maxIterations
    /\ remaining(run.stories) > 0
    /\ \E p \in 1..Len(runEvents) : runEvents[p].type = "loop_fail"

countType(events, t) ==
    Cardinality({p \in 1..Len(events) : events[p].type = t})

\* C7: the run's events begin with its only run_start; run_complete occurs
\* at most once and nothing follows it; once run() has returned the events
\* end with run_complete.
C7_RunStartFirstCompleteLast ==
    LET ev == runEvents
    IN  /\ ev # <<>> =>
              /\ ev[1].type = "run_start"
              /\ countType(ev, "run_start") = 1
        /\ countType(ev, "run_complete") <= 1
        /\ \A p \in 1..Len(ev) : ev[p].type = "run_complete" => p = Len(ev)
        /\ Returned =>
              /\ ev # <<>>
              /\ ev[Len(ev)].type = "run_complete"

\* a failed run has returned
C7_Witness ==
    /\ Returned
    /\ err = "adapter"
    /\ Len(runEvents) >= 4
    /\ runEvents[Len(runEvents)].status = "fail"

\* the step ids of the run's step_start events, in append order
startedSteps(events) ==
    LET starts == SelectSeq(events, LAMBDA e : e.type = "step_start")
    IN  [n \in 1..Len(starts) |-> starts[n].step]

\* C8: steps start in declaration order; once a step has raised an error
\* and run() has handled it, the run is `failed`, the failing step is the
\* last one started and the last one an agent was called for, and the
\* run_complete event has status fail.
C8_ErrorStopsRun ==
    LET ev == runEvents
        started == startedSteps(ev)
    IN  /\ \A n \in 1..Len(started) : started[n] = n
        /\ \A c \in 1..Len(calls) : calls[c].step <= Len(started)
        /\ \A c \in 1..(Len(calls) - 1) : calls[c].step <= calls[c + 1].step
        /\ (err # "none" /\ pc \in {"complete", "cleanup", "returned"}) =>
              /\ run.status = "failed"
              /\ Len(started) = calls[Len(calls)].step
              /\ countType(ev, "step_complete") = calls[Len(calls)].step - 1
              /\ Returned => ev[Len(ev)] =
                    [type |-> "run_complete", runId |-> RunId, status |-> "fail"]

\* a step failed while later steps were still to run
C8_Witness ==
    /\ Returned
    /\ err # "none"
    /\ calls[Len(calls)].step < Len(formula)

\* C9: an adapter error raised by the implementer or verifier call of the
\* story loop does not reach run()'s catch (it counts as a failed attempt);
\* an adapter error of any other step fails the run.
C9_LoopAbsorbsAdapterError ==
    /\ (pc = "catch" /\ err = "adapter")
          => calls[Len(calls)].role \notin {"implement", "verify"}
    /\ (Returned /\ err = "adapter") => run.status = "failed"

\* C10: every step_start of the run is followed, before the next step_start
\* and before run_complete, by exactly one step_complete of the same step.
C10_StepsBracketed ==
    LET ev == runEvents
    IN  \A p \in 1..Len(ev) :
            ev[p].type = "step_start" =>
                \A q \in (p + 1)..Len(ev) :
                    (/\ ev[q].type \in {"step_start", "run_complete"}
                     /\ \A m \in (p + 1)..(q - 1) :
                           ev[m].type \notin {"step_start", "run_complete"})
                    => Cardinality({m \in (p + 1)..(q - 1) :
                           /\ ev[m].type = "step_complete"
                           /\ ev[m].step = ev[p].step}) = 1

\* position of a status value on the path planning -> running -> done|failed
statusRank(s) ==
    CASE s = "none" -> 0
      [] s = "planning" -> 1
      [] s = "running" -> 2
      [] s \in {"done", "failed"} -> 3

\* C11: run.status only moves forward along planning -> running ->
\* done|failed, and once it is `done` or `failed` no later assignment of the
\* same run changes it.
C11_StatusMovesForwardStep ==
    /\ statusRank(run'.status) >= statusRank(run.status)
    /\ run.status \in {"done", "failed"} => run'.status = run.status

C12_SnapshotAfterEveryStep ==
    /\ (pc = "steps" /\ stepIdx > 1)
          => [id |-> RunId, doc |-> run] \in snapshots
    /\ pc \in {"cleanup", "returned"}
          => [id |-> RunId, doc |-> run] \in snapshots

\* the positions of append() calls of one type, optionally of one run
appendsOf(t) == {i \in 1..Len(appended) : appended[i].type = t}

appendsOfRun(t, id) == {i \in appendsOf(t) : appended[i].runId = id}

MaxOf(S) == CHOOSE i \in S : \A j \in S : j <= i

MinOf(S) == CHOOSE i \in S : \A j \in S : i <= j

\* C17: read() returns the events appended so far, in append order (each
\* append adds its event at the end and changes nothing before it); an
\* append creates a missing ledger; a missing or empty ledger reads as the
\* empty sequence.
C17_AppendOnly ==
    /\ answer.op = "read" => answer.value = appended
    /\ appended # <<>> => file.exists
    /\ (answer.op = "read" /\ (~file.exists \/ file.content = <<>>))
          => answer.value = <<>>

\* read() after several appends
C17_Witness ==
    /\ answer.op = "read"
    /\ Len(appended) >= 2
    /\ appended[1] # appended[2]

\* C18 as stated: getRuns() has one record per run id with a run_start, in
\* order of first run_start, whose status is the status of a run_complete of
\* that run when one has been appended and "running" otherwise.
C18_StatusOfRunComplete ==
    answer.op = "getRuns" =>
        LET runs == answer.value
            started == {e.runId : e \in {appended[i] : i \in appendsOf("run_start")}}
        IN  /\ {runs[k].runId : k \in 1..Len(runs)} = started
            /\ Len(runs) = Cardinality(started)
            /\ \A k, l \in 1..Len(runs) : k < l =>
                  MinOf(appendsOfRun("run_start", runs[k].runId))
                      < MinOf(appendsOfRun("run_start", runs[l].runId))
            /\ \A k \in 1..Len(runs) :
                  LET completes == appendsOfRun("run_complete", runs[k].runId)
                  IN  IF completes = {} THEN runs[k].status = "running"
                      ELSE \E i \in completes :
                              runs[k].status = appended[i].status

\* C18: getRuns() has one record per run id with a run_start, in order of
\* first run_start, whose status is the status of the last run_complete of
\* that run appended after the run's last run_start, and "running" when
\* there is none.
C18_StatusAfterLastStart ==
    answer.op = "getRuns" =>
        LET runs == answer.value
            started == {e.runId : e \in {appended[i] : i \in appendsOf("run_start")}}
        IN  /\ {runs[k].runId : k \in 1..Len(runs)} = started
            /\ Len(runs) = Cardinality(started)
            /\ \A k, l \in 1..Len(runs) : k < l =>
                  MinOf(appendsOfRun("run_start", runs[k].runId))
                      < MinOf(appendsOfRun("run_start", runs[l].runId))
            /\ \A k \in 1..Len(runs) :
                  LET id == runs[k].runId
                      lastStart == MaxOf(appendsOfRun("run_start", id))
                      completes == {i \in appendsOfRun("run_complete", id) :
                                       i > lastStart}
                  IN  IF completes = {} THEN runs[k].status = "running"
                      ELSE runs[k].status = appended[MaxOf(completes)].status

\* one run completed, started again and completed again
C18_Witness ==
    /\ answer.op = "getRuns"
    /\ Len(appended) >= 3
    /\ \E id \in LedgerRunIds :
          /\ Cardinality(appendsOfRun("run_start", id)) >= 2
          /\ \E i \in appendsOfRun("run_complete", id) :
                MinOf(appendsOfRun("run_start", id)) < i
                    /\ i < MaxOf(appendsOfRun("run_start", id))

\* C19: when two runs interleave their appends, getRunEvents(runId) is the
\* events appended with that runId, in append order: none of the other run,
\* none lost, none duplicated.
C19_RunEventsAreOwnSubsequence ==
    answer.op = "getRunEvents" =>
        LET own == {i \in 1..Len(appended) : appended[i].runId = answer.runId}
            nth(k) == CHOOSE i \in own :
                         Cardinality({j \in own : j < i}) = k - 1
        IN  /\ Len(answer.value) = Cardinality(own)
            /\ \A k \in 1..Len(answer.value) :
                  answer.value[k] = appended[nth(k)]

\* the queried run appended before and after an append of the other run
C19_Witness ==
    /\ answer.op = "getRunEvents"
    /\ Len(appended) >= 3
    /\ appended[1].runId = answer.runId
    /\ appended[2].runId # answer.runId
    /\ appended[3].runId = answer.runId

\* C20: getLatestRunId() is the runId of the last run_start appended,
\* whatever was appended after it, and null when no run_start was appended.
C20_LatestIsLastRunStart ==
    answer.op = "getLatestRunId" =>
        LET starts == appendsOf("run_start")
        IN  IF starts = {} THEN answer.value = Null
            ELSE answer.value = appended[MaxOf(starts)].runId

\* two runs started, then the first one appended a later event
C20_Witness ==
    /\ answer.op = "getLatestRunId"
    /\ Len(appended) >= 3
    /\ appended[1].type = "run_start"
    /\ appended[2].type = "run_start"
    /\ appended[2].runId # appended[1].runId
    /\ appended[3].type # "run_start"
    /\ appended[3].runId = appended[1].runId

\* C16: an exec whose process times out or exits non-zero succeeds with the
\* captured stdout and a non-zero exitCode exactly when that stdout is longer
\* than the 50-character threshold, and otherwise fails with an execution
\* error; a clean exit succeeds with exitCode 0; the process is invoked at
\* most once per exec.
C16_PartialOutputRule ==
    /\ cliSpawns <= 1
    /\ cliSpawns = 1 =>
          IF cliOutcome.how = "exit" /\ cliOutcome.status = 0
          THEN /\ cliResult.ok
               /\ cliResult.exitCode = 0
               /\ cliResult.output = cliOutcome.stdout
          ELSE /\ cliResult.ok <=> cliOutcome.stdout.len > 50
               /\ cliResult.ok =>
                     /\ cliResult.output = cliOutcome.stdout
                     /\ cliResult.exitCode # 0
               /\ ~cliResult.ok => cliResult.error = "failed"

\* a timed-out process that left output of exactly the threshold length
C16_Witness ==
    /\ cliSpawns = 1
    /\ cliOutcome.how = "timeout"
    /\ cliOutcome.stdout.len = 50
    /\ ~cliResult.ok

\* the requests written so far that name a session
sessionRequests ==
    {i \in 1..Len(sent) : sent[i].method \in {"setAgent", "session/prompt"}}

\* C13: every exec call sends its own session/new and uses the session id
\* returned for it in its agent switch and its session/prompt; no session id
\* is used by two different exec calls.
C13_FreshSessionPerExec ==
    /\ \A i \in sessionRequests :
          \E j \in 1..(i - 1) :
              /\ sent[j].method = "session/new"
              /\ sent[j].call = sent[i].call
              /\ [req |-> sent[j].id, sessionId |-> sent[i].sessionId]
                    \in child.sessions
    /\ \A i, j \in sessionRequests :
          sent[i].call # sent[j].call => sent[i].sessionId # sent[j].sessionId
    /\ \A c \in AcpCalls :
          Cardinality({j \in 1..Len(sent) :
              sent[j].method = "session/new" /\ sent[j].call = c}) <= 1

\* two exec calls have each sent their session/prompt
C13_Witness ==
    \E i, j \in 1..Len(sent) :
        /\ sent[i].method = "session/prompt"
        /\ sent[j].method = "session/prompt"
        /\ sent[i].call # sent[j].call

\* C14: with the notifications of two calls interleaved, each call's listener
\* assembles only chunks of its own session and ends on its own TurnEnd (or
\* the response of its own prompt), never on another call's.
C14_OwnStreamOnly ==
    \A c \in AcpCalls :
        /\ \A k \in 1..Len(call[c].text) :
              call[c].text[k].session = call[c].session
        /\ call[c].pc = "returned" => call[c].endedBy = call[c].session

\* C15: a call whose configured timeout has elapsed, or whose channel has
\* closed, before its response or TurnEnd arrived does not stay pending: it
\* has failed.
C15_NoCallPendsForever ==
    \A c \in AcpCalls :
        (closed \/ c \in elapsed) => call[c].pc \notin AcpAwaiting

\* C21: once run_start is appended, run() appends run_complete exactly once
\* (whether all steps pass or a step fails), then calls the adapter's cleanup
\* exactly once and returns; cleanup never precedes run_complete, and after
\* cleanup the persistent adapter holds no child process.  Neither the catch
\* block nor the two steps after it can be stuck.
C21_CompleteThenCleanupOnce ==
    LET completes == countType(runEvents, "run_complete")
    IN  /\ completes <= 1
        /\ cleanups <= 1
        /\ cleanups = 1 => completes = 1 /\ Returned /\ ~acpProcess
        /\ pc = "cleanup" => completes = 1 /\ cleanups = 0
        /\ Returned => cleanups = 1
        /\ pc = "catch" => ENABLED Catch
        /\ pc = "complete" => ENABLED RunComplete
        /\ pc = "cleanup" => ENABLED Cleanup

\* run() has returned after a step failed while the child process existed
C21_Witness ==
    /\ Returned
    /\ err # "none"
    /\ calls # <<>>
    /\ cleanups = 1
    /\ ~acpProcess

\* C22: run() with a workflow name that was not discovered throws an error
\* that lists the available names and does nothing else: no gitCheckout, no
\* ledger event, no WorkflowRun, no agent call, no cleanup; it never gets
\* past loadFormula.
C22_UnknownWorkflowFailsFast ==
    /\ workflow \notin AvailableWorkflows =>
          /\ pc \in {"idle", "rejected"}
          /\ checkouts = 0
          /\ ledger \in PriorLedgers
          /\ calls = <<>>
          /\ run = NoRun
          /\ cleanups = 0
          /\ ~acpProcess
    /\ pc = "rejected" =>
          /\ workflow \notin AvailableWorkflows
          /\ thrown.kind = "Unknown workflow"
          /\ thrown.workflow = workflow
          /\ thrown.available = AvailableWorkflows
    /\ workflow \in AvailableWorkflows => thrown = NoError

\* run() has thrown for an unknown name, with a ledger that already had events
C22_Witness ==
    /\ pc = "rejected"
    /\ thrown # NoError
    /\ ledger # <<>>

\* the stories that received a loop_start, in ledger order
loopStarts ==
    LET starts == SelectSeq(runEvents, LAMBDA e : e.type = "loop_start")
    IN  [n \in 1..Len(starts) |-> starts[n].storyId]

\* C25: every pass of the story loop works on the first story, in declaration
\* order, that is pending or running: a story past `pending` has only
\* terminal stories before it, loop_start events follow declaration order,
\* the story an agent is called for is the first open one, and when no story
\* is open the loop can only exit, without an agent call.
C25_FirstOpenStoryFirst ==
    LET starts == loopStarts
        stories == run.stories
    IN  /\ \A k \in 2..Len(stories) :
              stories[k].status # "pending"
                  => \A j \in 1..(k - 1) : ~isOpen(stories[j])
        /\ \A n \in 2..Len(starts) : starts[n - 1] <= starts[n]
        /\ pc \in {"implement", "verify"} =>
              /\ story \in StoryIdx
              /\ stories[story].status = "running"
              /\ \A j \in 1..(story - 1) : ~isOpen(stories[j])
              /\ starts[Len(starts)] = stories[story].id
              /\ calls[Len(calls)].storyId = stories[story].id
        /\ (pc = "stepLoop" /\ findStory(stories) = 0) =>
              /\ ~ENABLED LoopPass
              /\ ENABLED LoopExit

\* the second story is being worked on after the first one failed for good
C25_Witness ==
    /\ pc = "verify"
    /\ story = 2
    /\ run.stories[1].status = "failed"
    /\ loopStarts[1] = run.stories[1].id

\* the story loop is at its head right after a verifier answered
afterVerify == pc = "stepLoop" /\ verifyOutput.defined

\* C26: a verifier response passes only if its first line begins with PASS;
\* any other response fails, and its full text becomes the story's
\* verifyFeedback.
C26_PassOnlyIfLeadingPass ==
    afterVerify =>
        LET s == run.stories[story]
            leading == /\ Len(verifyOutput.text) > 0
                       /\ isPassToken(verifyOutput.text[1])
        IN  IF leading
            THEN s.status = "done"
            ELSE /\ s.status # "done"
                 /\ s.verifyFeedback = verifyOutput

\* C27 (step): the implementer call that follows a failed verification of the
\* same story is handed that verifier's full output as feedback; an
\* implementer call for a story not attempted before is handed none.
C27_FeedbackStep ==
    (pc = "stepLoop" /\ pc' = "implement") =>
        LET c == calls'[Len(calls')]
            k == story'
        IN  /\ c.role = "implement"
            /\ c.storyId = run.stories[k].id
            /\ IF run.stories[k].retryCount = 0
               THEN c.feedback = NoFeedback
               ELSE /\ verifyOutput.defined
                    /\ k = story
                    /\ c.feedback = verifyOutput

\* C27: the feedback of a failed verification is the story's verifyFeedback,
\* it is what the next attempt of that story is handed, a story that was
\* never attempted carries none, and a story marked done carries none.
C27_FeedbackCarried ==
    /\ [](/\ (afterVerify /\ run.stories[story].status # "done")
                => run.stories[story].verifyFeedback = verifyOutput
          /\ \A k \in StoryIdx :
                /\ run.stories[k].status = "done"
                      => run.stories[k].verifyFeedback = NoFeedback
                /\ run.stories[k].retryCount = 0
                      => run.stories[k].verifyFeedback = NoFeedback)
    /\ [][C27_FeedbackStep]_vars

\* the implementer is retrying a story with the verifier's output as feedback
C27_Witness ==
    /\ pc = "implement"
    /\ run.stories[story].retryCount > 0
    /\ calls[Len(calls)].feedback.defined
    /\ calls[Len(calls)].feedback.text = <<"FAIL">>

\* number of loop_fail events of a story
loopFails(storyId) ==
    LET ev == runEvents
    IN  Cardinality({p \in 1..Len(ev) :
            ev[p].type = "loop_fail" /\ ev[p].storyId = storyId})

\* C28: for every story the number of loop_fail events equals the number of
\* its failed attempts (retryCount counts them), the exhausting one included.
C28_LoopFailPerFailedAttempt ==
    \A k \in StoryIdx :
        loopFails(run.stories[k].id) = run.stories[k].retryCount

\* C29: once a step has raised an error and run() has returned, the last
\* entry of run.progress is the error's first line.
C29_ErrorIsLastProgress ==
    (Returned /\ err # "none") =>
        /\ run.progress # <<>>
        /\ run.progress[Len(run.progress)].kind = "error"

\* the output wraps one list of at least one story object
wrapsList(p) == p.hasList /\ p.items # <<>>

\* the Story the parser is to build from story object n; the id of an object
\* without one is left open
expected(n, st) ==
    /\ [st EXCEPT !.id = <<>>]
          = [storyOf(RawStories[n], DefaultMaxRetries, Absent) EXCEPT !.id = <<>>]
    /\ hasExplicitId(RawStories[n])
          => st.id = <<Or(RawStories[n].id, RawStories[n].story_id)>>

\* C23: parseStories on an output that wraps one list of story objects in
\* prose and/or a code fence returns the stories of that list, in order
\* (ids, titles, criteria, status pending, retryCount 0); on an output
\* without brackets it throws.
C23_WrappedListIsReturned ==
    parsed # NoParse =>
        /\ wrapsList(plannerOutput) =>
              /\ parsed.ok
              /\ Len(parsed.stories) = Len(plannerOutput.items)
              /\ \A k \in 1..Len(parsed.stories) :
                    expected(plannerOutput.items[k], parsed.stories[k])
        /\ positions(textOf(plannerOutput), "[") = {} => ~parsed.ok

\* C23, with prose that holds no bracket before the list
C23_WithoutBracketsInProse ==
    (parsed # NoParse /\ positions(plannerOutput.pre, "[") = {}) =>
        C23_WrappedListIsReturned

\* C24: parsing the same output twice gives the same outcome: the same error,
\* or story lists of the same length whose stories agree in every field; the
\* ids agree, and are the object's own, wherever the object has an id, and
\* are random ids otherwise.
C24_ParseTwiceSame ==
    reparsed # NoParse =>
        LET elems == elements(textOf(plannerOutput))
        IN  /\ reparsed.ok = parsed.ok
            /\ reparsed.error = parsed.error
            /\ Len(reparsed.stories) = Len(parsed.stories)
            /\ \A k \in 1..Len(parsed.stories) :
                  LET a == parsed.stories[k]
                      b == reparsed.stories[k]
                      raw == rawOf(elems[k])
                  IN  /\ [a EXCEPT !.id = <<>>] = [b EXCEPT !.id = <<>>]
                      /\ IF hasExplicitId(raw)
                         THEN /\ a.id = b.id
                              /\ a.id = <<Or(raw.id, raw.story_id)>>
                         ELSE /\ a.id[1] = "story-"
                              /\ b.id[1] = "story-"

\* a list of a story with an id and one without was parsed twice, and the
\* two random ids differ
C24_Witness ==
    /\ wrapsList(plannerOutput)
    /\ plannerOutput.items = <<1, 3>>
    /\ parsed.ok
    /\ reparsed.ok
    /\ parsed.stories[1].id = reparsed.stories[1].id
    /\ parsed.stories[2].id # reparsed.stories[2].id

\* C30: from startAcp on there is exactly one "line" listener at every
\* moment, so every inbound line is handled exactly once: by the
\* streamHandler of a prompt while one is installed, by the pending-request
\* dispatcher otherwise; before startAcp there is none.
C30_ExactlyOneLineListener ==
    /\ acpProcess => Cardinality(listeners) = 1
    /\ ~acpProcess => listeners = {}
    /\ streaming # {} => Dispatch \notin listeners
    /\ Cardinality(streaming) <= 1

\* both calls have sent their prompt, one of them has returned on a TurnEnd
\* and the dispatcher is the listener again
C30_Witness ==
    /\ listeners = {Dispatch}
    /\ \A c \in AcpCalls : call[c].pc \in {"prompt", "returned"}
    /\ \E c \in AcpCalls : call[c].pc = "returned"
    /\ \E t \in child.turns : t.ended

\* the loop events of this run (loop_start and the three outcomes), in order
loopEvents ==
    SelectSeq(runEvents, LAMBDA e :
        e.type \in {"loop_start", "loop_pass", "loop_fail", "loop_exhausted"})

LoopOutcomes == {"loop_pass", "loop_fail", "loop_exhausted"}

\* max(1, n)
AtLeastOne(n) == IF n < 1 THEN 1 ELSE n

\* the bound on one loop step: per story at most max(1, max_retries) passes,
\* the counter within its budget, and the loop head always able to go on
C31_LoopPassesBounded ==
    LET ev == runEvents
        startsAt == {p \in 1..Len(ev) : ev[p].type = "loop_start"}
        starts(j, id) == Cardinality({p \in startsAt :
                            ev[p].step = j /\ ev[p].storyId = id})
    IN  /\ iteration <= maxIterations
        /\ pc = "stepLoop" => ENABLED LoopPass \/ ENABLED LoopExit
        /\ startsAt # {} =>
              \A j \in 1..Len(formula) :
                 formula[j].for_each =>
                    \A k \in StoryIdx :
                       starts(j, run.stories[k].id)
                           <= AtLeastOne(stepMaxRetries(formula[j]))

\* C31: the story loop terminates: in one loop step a story is attempted at
\* most max(1, max_retries) times, so the step makes at most that many passes
\* per story, whatever the verifier answers and although a retry gives its
\* iteration back; the counter never exceeds the budget.
C31_LoopTerminates == []C31_LoopPassesBounded

\* a loop step has made more passes than the iteration budget allows for
\* net-new stories, and has ended
C31_Witness ==
    /\ pc = "stepDone"
    /\ formula[stepIdx].for_each
    /\ Cardinality({p \in 1..Len(loopEvents) :
          loopEvents[p].type = "loop_start" /\ loopEvents[p].step = stepIdx})
          > maxIterations

\* C32: at most one story is running, and a running story is the one whose
\* loop_start is the last loop event of the run: no outcome of that attempt
\* has been appended yet.
C32_OneRunningStory ==
    LET le == loopEvents
        running == {k \in StoryIdx : run.stories[k].status = "running"}
    IN  /\ Cardinality(running) <= 1
        /\ \A k \in running :
              /\ le # <<>>
              /\ le[Len(le)].type = "loop_start"
              /\ le[Len(le)].storyId = run.stories[k].id
        /\ pc \in {"implement", "verify"} => running = {story}

\* the second story is running after the first one was retried and passed
C32_Witness ==
    /\ pc = "verify"
    /\ story = 2
    /\ run.stories[2].status = "running"
    /\ run.stories[1].status = "done"
    /\ run.stories[1].retryCount > 0

\* C33: when run() returns no story is running.
C33_NoRunningStoryAtReturn ==
    Returned => \A k \in StoryIdx : run.stories[k].status # "running"

\* C34 (step): a done story keeps its status and retryCount, is not selected
\* and gets no agent call.
C34_DoneStep ==
    \A k \in StoryIdx :
        run.stories[k].status = "done" =>
            /\ k \in 1..Len(run'.stories)
            /\ run'.stories[k] = run.stories[k]
            /\ Len(calls') > Len(calls)
                  => calls'[Len(calls')].storyId # run.stories[k].id
            /\ (pc = "stepLoop" /\ pc' = "implement") => story' # k

\* C34: done is absorbing, in the loop step that marked the story and in
\* every later step of the formula.
C34_DoneIsAbsorbing == [][C34_DoneStep]_vars

\* a later loop step works on the second story while the first is done
C34_Witness ==
    /\ pc = "implement"
    /\ stepIdx = 3
    /\ formula[2].for_each
    /\ story = 2
    /\ run.stories[1].status = "done"

\* C35: once no attempt is in progress every loop_start of the run is
\* directly followed (among the loop events) by one outcome for the same
\* story, a loop_pass or loop_fail carrying the same attempt number; every
\* outcome directly follows a loop_start; a story's loop_start events are
\* numbered 1, 2, 3, ...
C35_LoopEventProtocol ==
    LET le == loopEvents
    IN  \A p \in 1..Len(le) :
           IF le[p].type = "loop_start"
           THEN /\ le[p].attempt = 1 + Cardinality({q \in 1..(p - 1) :
                        /\ le[q].type = "loop_start"
                        /\ le[q].storyId = le[p].storyId})
                /\ IF p = Len(le) THEN pc \in {"implement", "verify"}
                   ELSE /\ le[p + 1].type \in LoopOutcomes
                        /\ le[p + 1].storyId = le[p].storyId
                        /\ le[p + 1].type # "loop_exhausted"
                              => le[p + 1].attempt = le[p].attempt
           ELSE /\ p > 1
                /\ le[p - 1].type = "loop_start"

\* C35, for runs in which no agent call raised an error
C35_UnlessAgentThrew == err = "adapter" \/ C35_LoopEventProtocol

\* C36: a story has a loop_exhausted event exactly when it is failed, it has
\* at most one, and the event's attempts field is the number of loop_start
\* events of the story.
C36_ExhaustedCountsAttempts ==
    LET le == loopEvents
    IN  \A k \in StoryIdx :
           LET id == run.stories[k].id
               ex == {p \in 1..Len(le) :
                        le[p].type = "loop_exhausted" /\ le[p].storyId = id}
               starts == {p \in 1..Len(le) :
                        le[p].type = "loop_start" /\ le[p].storyId = id}
           IN  /\ Cardinality(ex) <= 1
               /\ (ex # {}) = (run.stories[k].status = "failed")
               /\ \A p \in ex : le[p].attempts = Cardinality(starts)

\* C36, for retry limits other than 0
C36_ForPositiveLimits ==
    (\E j \in 1..Len(formula) :
        formula[j].for_each /\ stepMaxRetries(formula[j]) = 0)
    \/ C36_ExhaustedCountsAttempts


\* the request call c awaits has been answered by the child
answeredFor(c) == \A req \in child.todo : req.id # call[c].req

\* C37: with two calls in flight on one adapter, a response the child wrote
\* for the request a call awaits has reached that call (its continuation is
\* queued or the call has gone on), also while the other call's streamHandler
\* is installed; and a call that awaits its turn still has its streamHandler
\* installed.
C37_ConcurrentCallsServed ==
    \A c \in AcpCalls :
        /\ (call[c].pc \in {"initialize", "session/new", "setAgent"}
              /\ answeredFor(c))
              => \E k \in 1..Len(microtasks) : microtasks[k].call = c
        /\ call[c].pc = "prompt" => Stream(c) \in listeners


(***************************************************************************)
(* The standalone loop command (commandLoop, src/src/commands/exec.ts)     *)
(* beside the orchestrator's story loop.  A workflow of a planner step and *)
(* one verified loop step is run; the command is then run on one task with *)
(* the loop step's max_retries, and the verifier gives the command the     *)
(* answers it gave for the first story of the run, in the same order.      *)
(***************************************************************************)
\* the loop step of the workflow
cmdStep == 2

\* the outcomes the run recorded for a story, in order
storyOutcomes(id) ==
    SelectSeq(runEvents, LAMBDA e :
        e.type \in LoopOutcomes /\ e.step = cmdStep /\ e.storyId = id)

\* the verifier answers the command may get at its k-th attempt: those the
\* orchestrator's parse reads as it read the k-th answer for the first story
\* of the run, any answer past the last one recorded
sameAnswers(k) ==
    LET given == IF run.stories = <<>> THEN <<>>
                 ELSE storyOutcomes(run.stories[1].id)
    IN  {output \in VerifierOutputs :
            k <= Len(given) =>
               parseVerifyResult(output) = (given[k].type = "loop_pass")}

\* while (attempt <= maxRetries && story.status !== "done")
cmdLoopGoesOn(attempt, maxRetries, status) ==
    attempt <= maxRetries /\ status # "done"

InitLoopCmd ==
    /\ Init
    /\ workflow \in AvailableWorkflows
    /\ Len(formula) = cmdStep
    /\ formula[1].agent = "planner"
    /\ formula[cmdStep].for_each
    /\ needsVerifier(formula[cmdStep])

\* commandLoop is called with --max-retries set to the loop step's limit; it
\* builds its one story
CmdLoopStart ==
    /\ Returned
    /\ cmdLoop.pc = "idle"
    /\ cmdLoop' = [NoCmdLoop EXCEPT
          !.pc = "while",
          !.maxRetries = stepMaxRetries(formula[cmdStep])]
    /\ UNCHANGED <<runVars, ledgerVars, cliVars, acpVars, parserVars,
                   runnerVars, ralphVars>>

\* the while test holds: attempt++, the story is running, the implementer
\* is called
CmdLoopAttempt ==
    /\ cmdLoop.pc = "while"
    /\ cmdLoopGoesOn(cmdLoop.attempt, cmdLoop.maxRetries, cmdLoop.status)
    /\ cmdLoop' = [cmdLoop EXCEPT !.attempt = @ + 1,
                                  !.status = "running",
                                  !.pc = "implement"]
    /\ UNCHANGED <<runVars, ledgerVars, cliVars, acpVars, parserVars,
                   runnerVars, ralphVars>>

\* the implementer answered: the verifier is called
CmdImplementReturns ==
    /\ cmdLoop.pc = "implement"
    /\ cmdLoop' = [cmdLoop EXCEPT !.pc = "verify"]
    /\ UNCHANGED <<runVars, ledgerVars, cliVars, acpVars, parserVars,
                   runnerVars, ralphVars>>

\* the verifier answered
CmdVerifyReturns ==
    /\ cmdLoop.pc = "verify"
    /\ \E result \in sameAnswers(cmdLoop.attempt) :
          cmdLoop' = IF parseVerifyResult(result)
                     THEN [cmdLoop EXCEPT !.status = "done", !.pc = "while"]
                     ELSE [cmdLoop EXCEPT
                             !.verifyFeedback = storedFeedback(result),
                             !.pc = "while"]
    /\ UNCHANGED <<runVars, ledgerVars, cliVars, acpVars, parserVars,
                   runnerVars, ralphVars>>

\* an awaited runner.runAgent call rejects: nothing in commandLoop catches it
CmdAgentThrows ==
    /\ cmdLoop.pc \in {"implement", "verify"}
    /\ cmdLoop' = [cmdLoop EXCEPT !.pc = "crashed"]
    /\ UNCHANGED <<runVars, ledgerVars, cliVars, acpVars, parserVars,
                   runnerVars, ralphVars>>

\* the while test fails: process.exit(1) unless the story is done, else
\* runner.cleanup() and return
CmdLoopEnd ==
    /\ cmdLoop.pc = "while"
    /\ ~cmdLoopGoesOn(cmdLoop.attempt, cmdLoop.maxRetries, cmdLoop.status)
    /\ cmdLoop' = [cmdLoop EXCEPT
          !.pc = IF cmdLoop.status # "done" THEN "exit1" ELSE "returned"]
    /\ UNCHANGED <<runVars, ledgerVars, cliVars, acpVars, parserVars,
                   runnerVars, ralphVars>>

NextLoopCmd ==
    \/ RunStart
    \/ StepStart
    \/ AllStepsDone
    \/ StepComplete
    \/ AgentThrows
    \/ Catch
    \/ RunComplete
    \/ Cleanup
    \/ StepPlanReturns
    \/ LoopPass
    \/ LoopExit
    \/ ImplementReturns
    \/ VerifyReturns
    \/ CmdLoopStart
    \/ CmdLoopAttempt
    \/ CmdImplementReturns
    \/ CmdVerifyReturns
    \/ CmdAgentThrows
    \/ CmdLoopEnd

SpecLoopCmd == InitLoopCmd /\ [][NextLoopCmd]_vars

\* the command has left its loop
cmdEnded == cmdLoop.pc \in {"exit1", "returned"}

\* the first story of the run has reached a terminal status
storySettled ==
    /\ run.stories # <<>>
    /\ run.stories[1].status \in {"done", "failed"}

\* C38: given the same max_retries and the same verifier answers, the loop
\* command makes as many implement attempts on its task as the orchestrator
\* made on the story, and the task is done exactly if the story is.
C38_SameAttemptsSameResult ==
    (cmdEnded /\ storySettled) =>
        /\ cmdLoop.attempt = implementCalls(cmdStep, run.stories[1].id)
        /\ (cmdLoop.status = "done") = (run.stories[1].status = "done")

\* C38, the part that holds: the command makes at most one attempt more
\* than the orchestrator, and a task the orchestrator passed is passed
C38_AtMostOneMore ==
    (cmdEnded /\ storySettled) =>
        LET n == implementCalls(cmdStep, run.stories[1].id)
        IN  /\ cmdLoop.attempt \in {n, n + 1}
            /\ run.stories[1].status = "done" => cmdLoop.status = "done"
            /\ cmdLoop.attempt <= cmdLoop.maxRetries + 1


(***************************************************************************)
(* workflow-runner.sh (src/unnamed/part_005).  The script is started up to *)
(* MaxRuns times on one project directory, each time with its --from and   *)
(* --run options; progress.md is what the earlier runs left.  One workflow *)
(* is selected every time.  The script runs under `set -e`.                *)
(***************************************************************************)
MaxRuns == 2

\* the agents of the selected workflow (the shipped ones name six or seven)
RunnerAgents == <<"planner", "developer", "verifier">>

RunnerTotal == Len(RunnerAgents)

\* --from: any non-negative integer is accepted
StartFroms == 0..(RunnerTotal + 1)

\* init_progress: Status in-progress, every step pending
init_progress ==
    [exists |-> TRUE, status |-> "in-progress",
     steps |-> [k \in 1..RunnerTotal |-> "pending"], completed |-> 0]

\* update_step_status on an existing file: sed rewrites the line of the step
update_step_status(f, step, status) == [f EXCEPT !.steps[step] = status]

\* mark_workflow_done on an existing file: `Status: in-progress` becomes
\* `Status: done`, a Completed line is appended
mark_workflow_done(f) ==
    [f EXCEPT !.status = IF @ = "in-progress" THEN "done" ELSE @,
              !.completed = @ + 1]

\* the for loop reaches step `step` with progress file f: past the last
\* step the workflow is marked done, else the step is marked in-progress
\* and the script prompts or runs the command.  update_step_status and
\* mark_workflow_done return 1 without a file, which ends the script
reachStep(f, step, r) ==
    IF ~f.exists
    THEN /\ progressFile' = f
         /\ runner' = [r EXCEPT !.pc = "exited", !.step = step,
                                !.ended = "error"]
    ELSE IF step > RunnerTotal
    THEN /\ progressFile' = mark_workflow_done(f)
         /\ runner' = [r EXCEPT !.pc = "exited", !.step = step,
                                !.ended = "complete"]
    ELSE /\ progressFile' = update_step_status(f, step, "in-progress")
         /\ runner' = [r EXCEPT !.pc = IF r.autoRun THEN "cmd" ELSE "prompt",
                                !.step = step]

InitRunner ==
    /\ NoRunCall
    /\ NoLedgerCall
    /\ NoCliCall
    /\ NoAcpCall
    /\ NoParserCall
    /\ cmdLoop = NoCmdLoop
    /\ progressFile = NoProgress
    /\ runner = NoRunner
    /\ prd = <<>>
    /\ ralph = NoRalph

\* the script is started: run_workflow up to the first prompt or command
RunWorkflow ==
    /\ runner.pc \in {"idle", "exited"}
    /\ runner.runs < MaxRuns
    /\ \E start_from \in StartFroms, auto_run \in BOOLEAN :
          LET f == IF start_from = 1 THEN init_progress ELSE progressFile
              first == IF start_from < 1 THEN 1 ELSE start_from
              r == [runner EXCEPT !.startFrom = start_from,
                                  !.autoRun = auto_run,
                                  !.runs = @ + 1,
                                  !.ended = "none"]
          IN  reachStep(f, first, r)
    /\ UNCHANGED <<runVars, ledgerVars, cliVars, acpVars, parserVars,
                   cmdVars, ralphVars>>

\* the user presses Enter (or types anything but s and q): the step is done
Proceed ==
    /\ runner.pc = "prompt"
    /\ reachStep(update_step_status(progressFile, runner.step, "done"),
                 runner.step + 1, runner)
    /\ UNCHANGED <<runVars, ledgerVars, cliVars, acpVars, parserVars,
                   cmdVars, ralphVars>>

\* the user types s: the step is skipped
Skip ==
    /\ runner.pc = "prompt"
    /\ reachStep(update_step_status(progressFile, runner.step, "skipped"),
                 runner.step + 1, runner)
    /\ UNCHANGED <<runVars, ledgerVars, cliVars, acpVars, parserVars,
                   cmdVars, ralphVars>>

\* the user types q: the step is pending again, run_workflow returns 0
Quit ==
    /\ runner.pc = "prompt"
    /\ progressFile' = update_step_status(progressFile, runner.step, "pending")
    /\ runner' = [runner EXCEPT !.pc = "exited", !.ended = "quit"]
    /\ UNCHANGED <<runVars, ledgerVars, cliVars, acpVars, parserVars,
                   cmdVars, ralphVars>>

\* standard input ends at the prompt: read fails and `set -e` ends the script
StdinCloses ==
    /\ runner.pc = "prompt"
    /\ runner' = [runner EXCEPT !.pc = "exited", !.ended = "eof"]
    /\ UNCHANGED progressFile
    /\ UNCHANGED <<runVars, ledgerVars, cliVars, acpVars, parserVars,
                   cmdVars, ralphVars>>

\* --run: kiro-cli exits with 0
CommandSucceeds ==
    /\ runner.pc = "cmd"
    /\ reachStep(update_step_status(progressFile, runner.step, "done"),
                 runner.step + 1, runner)
    /\ UNCHANGED <<runVars, ledgerVars, cliVars, acpVars, parserVars,
                   cmdVars, ralphVars>>

\* --run: kiro-cli fails: the step is failed, run_workflow returns 1
CommandFails ==
    /\ runner.pc = "cmd"
    /\ progressFile' = update_step_status(progressFile, runner.step, "failed")
    /\ runner' = [runner EXCEPT !.pc = "exited", !.ended = "failed"]
    /\ UNCHANGED <<runVars, ledgerVars, cliVars, acpVars, parserVars,
                   cmdVars, ralphVars>>

NextRunner ==
    \/ RunWorkflow
    \/ Proceed
    \/ Skip
    \/ Quit
    \/ StdinCloses
    \/ CommandSucceeds
    \/ CommandFails

SpecRunner == InitRunner /\ [][NextRunner]_vars

\* an interactive run has ended on the user's inputs
interactiveRunEnded ==
    /\ runner.pc = "exited"
    /\ ~runner.autoRun
    /\ runner.ended \in {"complete", "quit"}

\* the steps this run went through
stepsOfRun ==
    {k \in 1..RunnerTotal : k >= runner.startFrom /\ k <= runner.step}

\* C39: when an interactive run has ended on proceed / skip / quit inputs,
\* none of its steps is in-progress: the steps before the last one reached
\* are done or skipped, the step of a quit is pending, the later ones are as
\* they were; and in no run does Status turn to done unless the last step is
\* done or skipped.
C39_NoStepLeftInProgress ==
    /\ interactiveRunEnded =>
          /\ \A k \in stepsOfRun :
                IF k < runner.step
                THEN progressFile.steps[k] \in {"done", "skipped"}
                ELSE progressFile.steps[k] = "pending"
          /\ runner.startFrom = 1 =>
                \A k \in 1..RunnerTotal :
                   k > runner.step => progressFile.steps[k] = "pending"
    /\ (runner.pc = "exited" /\ runner.ended = "complete") =>
          progressFile.steps[RunnerTotal] \in {"done", "skipped"}
    /\ (runner.pc = "exited" /\ runner.ended \in {"quit", "failed"}
          /\ runner.startFrom = 1) => progressFile.status = "in-progress"

\* C39 for runs started within the workflow (--from at most the number of
\* steps)
C39_FromWithinWorkflow ==
    runner.startFrom > RunnerTotal \/ C39_NoStepLeftInProgress


(***************************************************************************)
(* ralph.sh (src/unnamed/part_021): the shell version of the story loop,   *)
(* on the stories of prd.json.                                             *)
(***************************************************************************)
RalphMaxRetries == 3

\* the value of a story's `passes` field
PassesValues == {"true", "false", "null"}

PrdFiles == UNION {[1..n -> PassesValues] : n \in 1..MaxStories}

\* select(.passes == false or .passes == null)
notPassed(p) == p = "false" \/ p = "null"

\* get_next_story: the first story that has not passed, 0 for the empty
\* string
get_next_story(stories) ==
    IF \E k \in 1..Len(stories) : notPassed(stories[k])
    THEN CHOOSE k \in 1..Len(stories) :
            /\ notPassed(stories[k])
            /\ \A j \in 1..(k - 1) : ~notPassed(stories[j])
    ELSE 0

\* mark_story_done
mark_story_done(stories, k) == [stories EXCEPT ![k] = "true"]

\* head -5 | grep -q "^PASS"
grepPass(output) ==
    \E k \in 1..Min(Len(output), VerifyHeadLines) : output[k] = "PASS"

InitRalph ==
    /\ NoRunCall
    /\ NoLedgerCall
    /\ NoCliCall
    /\ NoAcpCall
    /\ NoParserCall
    /\ cmdLoop = NoCmdLoop
    /\ progressFile = NoProgress
    /\ runner = NoRunner
    /\ prd \in PrdFiles
    /\ \E n \in 1..MaxIter, v \in BOOLEAN :
          ralph = [NoRalph EXCEPT !.maxIterations = n, !.verifyEach = v]

\* main up to the while loop: iteration=0, feedback="", retries=0
RalphStart ==
    /\ ralph.pc = "idle"
    /\ ralph' = [ralph EXCEPT !.pc = "loop"]
    /\ UNCHANGED prd
    /\ UNCHANGED <<runVars, ledgerVars, cliVars, acpVars, parserVars,
                   cmdVars, runnerVars>>

\* the while test holds: iteration++, get_next_story; break when there is
\* none, else run_iteration starts the developer agent
RalphIteration ==
    /\ ralph.pc = "loop"
    /\ ralph.iteration < ralph.maxIterations
    /\ LET next == get_next_story(prd)
       IN  ralph' = [ralph EXCEPT !.iteration = @ + 1,
                                  !.story = next,
                                  !.pc = IF next = 0 THEN "summary" ELSE "dev"]
    /\ UNCHANGED prd
    /\ UNCHANGED <<runVars, ledgerVars, cliVars, acpVars, parserVars,
                   cmdVars, runnerVars>>

\* the while test fails
RalphLoopEnds ==
    /\ ralph.pc = "loop"
    /\ ~(ralph.iteration < ralph.maxIterations)
    /\ ralph' = [ralph EXCEPT !.pc = "summary"]
    /\ UNCHANGED prd
    /\ UNCHANGED <<runVars, ledgerVars, cliVars, acpVars, parserVars,
                   cmdVars, runnerVars>>

\* run_iteration returned 0: feedback="", retries=0
iterationPassed(r) ==
    [r EXCEPT !.feedback = FALSE, !.retries = 0, !.pc = "loop"]

\* run_iteration returned 1 with the verifier's output in the feedback file
iterationFailed(r, output) ==
    IF r.retries + 1 >= RalphMaxRetries
    THEN [r EXCEPT !.feedback = FALSE, !.retries = 0, !.pc = "loop"]
    ELSE [r EXCEPT !.feedback = (output # <<>>),
                   !.retries = @ + 1,
                   !.iteration = @ - 1,
                   !.pc = "loop"]

\* the developer agent ended (its exit status is not looked at): the
\* verifier is started, or without VERIFY_EACH the story is marked done
RalphDeveloperEnds ==
    /\ ralph.pc = "dev"
    /\ IF ralph.verifyEach
       THEN /\ ralph' = [ralph EXCEPT !.pc = "verify"]
            /\ UNCHANGED prd
       ELSE /\ prd' = mark_story_done(prd, ralph.story)
            /\ ralph' = iterationPassed(ralph)
    /\ UNCHANGED <<runVars, ledgerVars, cliVars, acpVars, parserVars,
                   cmdVars, runnerVars>>

\* the verifier ended with `verify_output`
RalphVerifierEnds ==
    /\ ralph.pc = "verify"
    /\ \E verify_output \in VerifierOutputs :
          IF grepPass(verify_output)
          THEN /\ prd' = mark_story_done(prd, ralph.story)
               /\ ralph' = iterationPassed(ralph)
          ELSE /\ prd' = prd
               /\ ralph' = iterationFailed(ralph, verify_output)
    /\ UNCHANGED <<runVars, ledgerVars, cliVars, acpVars, parserVars,
                   cmdVars, runnerVars>>

\* the final summary (and the compound agent when nothing remains)
RalphSummary ==
    /\ ralph.pc = "summary"
    /\ ralph' = [ralph EXCEPT !.pc = "done"]
    /\ UNCHANGED prd
    /\ UNCHANGED <<runVars, ledgerVars, cliVars, acpVars, parserVars,
                   cmdVars, runnerVars>>

NextRalph ==
    \/ RalphStart
    \/ RalphIteration
    \/ RalphLoopEnds
    \/ RalphDeveloperEnds
    \/ RalphVerifierEnds
    \/ RalphSummary

SpecRalph == InitRalph /\ [][NextRalph]_vars

\* the loop is at its head right after the selected story used up its
\* retries: it has not passed, and the retry counter is back at 0
justExhausted ==
    /\ ralph.pc = "loop"
    /\ ralph.story # 0
    /\ ralph.retries = 0
    /\ notPassed(prd[ralph.story])

\* C40 (step): the iteration that follows a story's last failed retry selects
\* another story, starts it without feedback and with the retry counter at
\* 0, and leaves the exhausted story not passed.
C40_MovesOnStep ==
    (justExhausted /\ ralph'.pc = "dev") =>
        /\ ralph'.story # ralph.story
        /\ ralph'.retries = 0
        /\ ~ralph'.feedback
        /\ notPassed(prd'[ralph.story])

\* C40: after MAX_RETRIES failed verifications the loop moves on to another
\* story.
C40_MovesOnToNextStory == [][C40_MovesOnStep]_vars

\* C40, what the loop does: the next iteration selects the exhausted story
\* again, without feedback and with the retry counter at 0
C40_SameStoryAgainStep ==
    (justExhausted /\ ralph'.pc = "dev") =>
        /\ ralph'.story = ralph.story
        /\ ralph'.retries = 0
        /\ ~ralph'.feedback
        /\ notPassed(prd'[ralph.story])

C40_SameStoryAgain == [][C40_SameStoryAgainStep]_vars

====
